---------------------------- MODULE Spec2Model ----------------------------
(***************************************************************************)
(* A model of configure.py, the setup utility of aiserve-gpuproxyd:        *)
(* the ConfigurationManager's handlers and the dispatcher in main().       *)
(*                                                                         *)
(* Text is a sequence of one-character strings, so that readlines,         *)
(* startswith and str.replace are computed character by character.         *)
(* A handler is an operator from the state it reads and the outcomes of    *)
(* the external commands and prompts it meets (its oracle) to a record of  *)
(* what it returned or raised, the commands it invoked, the messages it    *)
(* printed and the files it left.  The actions apply a handler for every   *)
(* oracle and add the dispatcher's gating.                                 *)
(***************************************************************************)
EXTENDS Integers, Sequences, FiniteSets, TLC

VARIABLES
    args,        \* the flags given on the command line (argparse's namespace)
    pc,          \* main()'s position: the step it stands before, or "exit"
    exitCode,    \* the process's exit code; NoExit while it runs
    started,     \* the pipeline steps started, in order
    cmds,        \* the external commands invoked in the run, in order
    printed,     \* what main() itself printed in the run, in order
    envFile,     \* .env
    envExample,  \* .env.example
    binDir,      \* whether bin/ exists
    bins,        \* the binaries present in bin/
    envInit,     \* .env as it was when the run began
    operator,    \* who sits at the terminal: "terse" declines the optional
                 \* sub-flows of setup_environment, "thorough" may take them
    last,        \* the last handler call: what it read, did, printed and returned
    writers      \* two invocations of the tool in update_env_var at once: each
                 \* one's position, what it read and what it is about to write

vars == <<args, pc, exitCode, started, cmds, printed, envFile, envExample,
          binDir, bins, envInit, operator, writers, last>>

----------------------------------------------------------------------------
(* Bounds of the model. *)

\* the longest .env enumerated character by character
MaxFileLen == 3
\* the most flags on one command line
MaxFlags == 3

----------------------------------------------------------------------------
(* Text. *)

NL == "\n"

RECURSIVE Concat(_)
Concat(ss) == IF ss = <<>> THEN <<>> ELSE Head(ss) \o Concat(Tail(ss))

Chars(s) == {s[i] : i \in 1..Len(s)}

\* str.startswith
startswith(s, prefix) ==
    /\ Len(s) >= Len(prefix)
    /\ SubSeq(s, 1, Len(prefix)) = prefix

\* str.find: the index of the first occurrence of old in s, 0 when there is
\* none (Python counts from 0 and answers -1)
find(s, old) ==
    LET at == {i \in 1..(Len(s) - Len(old) + 1) : SubSeq(s, i, i + Len(old) - 1) = old}
    IN  IF at = {} THEN 0 ELSE CHOOSE i \in at : \A j \in at : i <= j

\* whether old occurs in s
contains(s, old) == find(s, old) # 0

\* A faulty variant: str.replace(old, new, 1): the first occurrence only
replace_first(s, old, new) ==
    LET i == find(s, old)
    IN  IF old = <<>> \/ i = 0 THEN s
        ELSE SubSeq(s, 1, i - 1) \o new \o SubSeq(s, i + Len(old), Len(s))

\* str.replace(old, new): every non-overlapping occurrence, left to right
RECURSIVE replace(_, _, _)
replace(s, old, new) ==
    LET i == find(s, old)
    IN  IF old = <<>> \/ i = 0 THEN s
        ELSE SubSeq(s, 1, i - 1) \o new
                 \o replace(SubSeq(s, i + Len(old), Len(s)), old, new)

\* the index of the first line terminator of s, 0 when there is none
FirstNL(s) == find(s, <<NL>>)

\* file.readlines(): the lines, each with its terminator; the last may have none
RECURSIVE readlines(_)
readlines(content) ==
    IF content = <<>> THEN <<>>
    ELSE LET i == FirstNL(content)
         IN  IF i = 0 THEN <<content>>
             ELSE <<SubSeq(content, 1, i)>>
                      \o readlines(SubSeq(content, i + 1, Len(content)))

\* file.writelines(lines): the lines as they are, nothing added between them
writelines(lines) == Concat(lines)

----------------------------------------------------------------------------
(* Files. *)

NoFile == [exists |-> FALSE, content |-> <<>>]
File(content) == [exists |-> TRUE, content |-> content]

\* no invocation is inside update_env_var
NoWriters == <<>>

\* the index of the first line that starts with key=, 0 when there is none
RECURSIVE FindKey(_, _, _)
FindKey(lines, key, i) ==
    IF i > Len(lines) THEN 0
    ELSE IF startswith(lines[i], key \o <<"=">>) THEN i
    ELSE FindKey(lines, key, i + 1)

\* the loop and the append of update_env_var, on the lines read
UpsertLines(lines, key, value) ==
    LET i == FindKey(lines, key, 1)
        new == key \o <<"=">> \o value \o <<NL>>
    IN  IF i # 0 THEN [lines EXCEPT ![i] = new]
        ELSE Append(lines, new)

\* ConfigurationManager.update_env_var: .env after the call
update_env_var(file, key, value) ==
    IF ~file.exists THEN file
    ELSE File(writelines(UpsertLines(readlines(file.content), key, value)))

----------------------------------------------------------------------------
(* External commands and terminal output. *)

\* What subprocess.run can do to run_command, called with check=False: return
\* an exit code ("0", or "1" for any non-zero code), fail to launch the
\* program (an OSError such as FileNotFoundError, which run_command does not
\* catch), or be interrupted by the operator.
ReturnCodes == {"0", "1"}
Exceptions == {"OSError", "KeyboardInterrupt"}
Outcomes == ReturnCodes \cup Exceptions

\* ConfigurationManager.run_command: one entry of the command log
\* (cmd, the program and its fixed arguments; argv, the arguments the operator
\* typed; out, what became of it)
run_command(cmd, argv, out) == [cmd |-> cmd, argv |-> argv, out |-> out]

print_header(m)  == [lvl |-> "header",  msg |-> m]
print_success(m) == [lvl |-> "success", msg |-> m]
print_error(m)   == [lvl |-> "error",   msg |-> m]
print_warning(m) == [lvl |-> "warning", msg |-> m]
print_info(m)    == [lvl |-> "info",    msg |-> m]
print(m)         == [lvl |-> "plain",   msg |-> m]

\* A handler call comes to a record: ret, the value returned ("True", "False",
\* "None") or the exception raised; cmds, the commands invoked; msgs, the
\* messages printed; and the files it wrote, where it writes any.

Bool(b) == IF b THEN "True" ELSE "False"

----------------------------------------------------------------------------
(* check_dependencies *)

\* the dependencies dict, in insertion order
DepNames == <<"go", "docker", "docker-compose", "git">>
DepCmd(name) == name \o (IF name = "go" THEN " version" ELSE " --version")
\* A faulty variant: git taken for an optional tool
OptionalDepsWithGit == {"docker", "docker-compose", "git"}
OptionalDeps == {"docker", "docker-compose"}

\* the loop of check_dependencies from the i-th dependency on; o gives each
\* probe's outcome
RECURSIVE check_loop(_, _, _, _, _)
check_loop(o, i, all_ok, c, m) ==
    IF i > Len(DepNames) THEN [ret |-> Bool(all_ok), cmds |-> c, msgs |-> m]
    ELSE LET name == DepNames[i]
             c1 == Append(c, run_command(DepCmd(name), <<>>, o[name]))
         IN  IF o[name] \in Exceptions
             THEN [ret |-> o[name], cmds |-> c1, msgs |-> m]
             ELSE IF o[name] = "0"
             THEN check_loop(o, i + 1, all_ok, c1,
                             Append(m, print_success(name)))
             ELSE IF name \in OptionalDeps
             THEN check_loop(o, i + 1, all_ok, c1,
                             Append(m, print_warning(name \o " not found (optional)")))
             ELSE check_loop(o, i + 1, FALSE, c1,
                             Append(m, print_error(name \o " not found")))

\* ConfigurationManager.check_dependencies
check_dependencies(o) ==
    check_loop(o, 1, TRUE, <<>>, <<print_header("Checking Dependencies")>>)

\* the oracles of check_dependencies: no probe follows one that raised, so
\* there is no outcome to choose for it
CheckOracles ==
    {o \in [{DepNames[i] : i \in 1..Len(DepNames)} -> Outcomes] :
        \A i, j \in 1..Len(DepNames) :
            (i < j /\ o[DepNames[i]] \in Exceptions) => o[DepNames[j]] = "0"}

----------------------------------------------------------------------------
(* install_dependencies *)

\* A faulty variant: go mod tidy runs whatever go mod download returned
install_dependencies_tidy_anyway(o) ==
    LET c1 == <<run_command("go mod download", <<>>, o.download)>>
        c2 == Append(c1, run_command("go mod tidy", <<>>, o.tidy))
    IN  IF o.download \in Exceptions
        THEN [ret |-> o.download, cmds |-> c1, msgs |-> <<>>]
        ELSE IF o.tidy \in Exceptions
        THEN [ret |-> o.tidy, cmds |-> c2, msgs |-> <<>>]
        ELSE IF o.download # "0" \/ o.tidy # "0"
        THEN [ret |-> "False", cmds |-> c2,
              msgs |-> <<print_error("Failed to install modules")>>]
        ELSE [ret |-> "True", cmds |-> c2, msgs |-> <<>>]

\* ConfigurationManager.install_dependencies; o gives the outcome of
\* go mod download and of go mod tidy
install_dependencies(o) ==
    LET m0 == <<print_header("Installing Dependencies"),
                print_info("Downloading Go modules...")>>
        c1 == <<run_command("go mod download", <<>>, o.download)>>
        m1 == Append(m0, print_info("Tidying Go modules..."))
        c2 == Append(c1, run_command("go mod tidy", <<>>, o.tidy))
    IN  IF o.download \in Exceptions
        THEN [ret |-> o.download, cmds |-> c1, msgs |-> m0]
        ELSE IF o.download # "0"
        THEN [ret |-> "False", cmds |-> c1,
              msgs |-> Append(m0, print_error("Failed to download modules"))]
        ELSE IF o.tidy \in Exceptions
        THEN [ret |-> o.tidy, cmds |-> c2, msgs |-> m1]
        ELSE IF o.tidy # "0"
        THEN [ret |-> "False", cmds |-> c2,
              msgs |-> Append(m1, print_error("Failed to tidy modules"))]
        ELSE [ret |-> "True", cmds |-> c2,
              msgs |-> Append(m1, print_success("Dependencies installed successfully"))]

InstallOracles == [download : Outcomes, tidy : Outcomes]

----------------------------------------------------------------------------
(* build_project *)

Targets == {"server", "client", "admin"}

BinaryName(target) ==
    IF target = "server" THEN "aiserve-gpuproxyd"
    ELSE "aiserve-gpuproxy-" \o target

\* the go build of one target; -gcflags "all=-N -l" in debug mode
BuildCmd(target, debug, out) ==
    run_command((IF debug THEN "go build -gcflags all=-N -l" ELSE "go build")
                    \o " -o bin/" \o BinaryName(target) \o " ./cmd/" \o target,
                <<>>, out)

\* bin/ after a go build: a successful compile writes the target's binary
Built(bs, target, out) == IF out = "0" THEN bs \cup {target} ELSE bs

\* A faulty variant: a failed server compile is reported and the build goes on to the
\* client and the admin tool, to fail at the end
build_project_goes_on(o, debug, bs) ==
    LET c1 == <<BuildCmd("server", debug, o.server)>>
        c2 == Append(c1, BuildCmd("client", debug, o.client))
        c3 == Append(c2, BuildCmd("admin", debug, o.admin))
        b3 == Built(Built(Built(bs, "server", o.server), "client", o.client),
                    "admin", o.admin)
    IN  IF o.server \in Exceptions
        THEN [ret |-> o.server, cmds |-> c1, msgs |-> <<>>, dir |-> TRUE, bins |-> bs]
        ELSE IF o.client \in Exceptions
        THEN [ret |-> o.client, cmds |-> c2, msgs |-> <<>>, dir |-> TRUE, bins |-> bs]
        ELSE IF o.admin \in Exceptions
        THEN [ret |-> o.admin, cmds |-> c3, msgs |-> <<>>, dir |-> TRUE, bins |-> bs]
        ELSE [ret |-> Bool(o.server = "0"), cmds |-> c3, msgs |-> <<>>,
              dir |-> TRUE, bins |-> b3]

\* A faulty variant: a failed client compile ends the build like a failed
\* server compile
build_project_strict(o, debug, bs) ==
    LET c1 == <<BuildCmd("server", debug, o.server)>>
        c2 == Append(c1, BuildCmd("client", debug, o.client))
        c3 == Append(c2, BuildCmd("admin", debug, o.admin))
        b1 == Built(bs, "server", o.server)
        b2 == Built(b1, "client", o.client)
        b3 == Built(b2, "admin", o.admin)
        failed(m) == <<print_error(m)>>
    IN  IF o.server \in Exceptions
        THEN [ret |-> o.server, cmds |-> c1, msgs |-> <<>>, dir |-> TRUE, bins |-> bs]
        ELSE IF o.server # "0"
        THEN [ret |-> "False", cmds |-> c1, msgs |-> failed("Server build failed"),
              dir |-> TRUE, bins |-> bs]
        ELSE IF o.client \in Exceptions
        THEN [ret |-> o.client, cmds |-> c2, msgs |-> <<>>, dir |-> TRUE, bins |-> b1]
        ELSE IF o.client # "0"
        THEN [ret |-> "False", cmds |-> c2, msgs |-> failed("Client build failed"),
              dir |-> TRUE, bins |-> b1]
        ELSE IF o.admin \in Exceptions
        THEN [ret |-> o.admin, cmds |-> c3, msgs |-> <<>>, dir |-> TRUE, bins |-> b2]
        ELSE [ret |-> "True", cmds |-> c3, msgs |-> <<>>, dir |-> TRUE, bins |-> b3]

\* ConfigurationManager.build_project; o gives each compile's outcome, bs the
\* binaries present before.  bin/ is created first (mkdir, exist_ok).
build_project(o, debug, bs) ==
    LET m0 == <<print_header("Building Project"),
                print_info("Building aiserve-gpuproxyd (server)...")>>
        c1 == <<BuildCmd("server", debug, o.server)>>
        b1 == Built(bs, "server", o.server)
        m1 == m0 \o <<print_success("Server built successfully"),
                      print_info("Building aiserve-gpuproxy-client...")>>
        c2 == Append(c1, BuildCmd("client", debug, o.client))
        b2 == Built(b1, "client", o.client)
        m2 == m1 \o <<IF o.client = "0"
                      THEN print_success("Client built successfully")
                      ELSE print_error("Client build failed"),
                      print_info("Building aiserve-gpuproxy-admin...")>>
        c3 == Append(c2, BuildCmd("admin", debug, o.admin))
        b3 == Built(b2, "admin", o.admin)
        m3 == m2 \o <<IF o.admin = "0"
                      THEN print_success("Admin tool built successfully")
                      ELSE print_error("Admin build failed"),
                      print_success("All binaries built successfully!"),
                      print_info("Binaries located in: bin")>>
    IN  IF o.server \in Exceptions
        THEN [ret |-> o.server, cmds |-> c1, msgs |-> m0, dir |-> TRUE, bins |-> bs]
        ELSE IF o.server # "0"
        THEN [ret |-> "False", cmds |-> c1,
              msgs |-> Append(m0, print_error("Server build failed")),
              dir |-> TRUE, bins |-> bs]
        ELSE IF o.client \in Exceptions
        THEN [ret |-> o.client, cmds |-> c2, msgs |-> m1, dir |-> TRUE, bins |-> b1]
        ELSE IF o.admin \in Exceptions
        THEN [ret |-> o.admin, cmds |-> c3, msgs |-> m2, dir |-> TRUE, bins |-> b2]
        ELSE [ret |-> "True", cmds |-> c3, msgs |-> m3, dir |-> TRUE, bins |-> b3]

BuildOracles == [Targets -> Outcomes]

----------------------------------------------------------------------------
(* setup_database *)

AdminTool == "bin/" \o BinaryName("admin")

\* A faulty variant: a failed container start is not looked at: migrate runs anyway
setup_database_goes_on(o, docker, bs) ==
    LET c0 == IF docker
              THEN <<run_command("docker-compose up -d postgres redis", <<>>, o.up)>>
              ELSE <<>>
        c1 == Append(c0, run_command(AdminTool \o " migrate", <<>>, o.migrate))
    IN  IF docker /\ o.up \in Exceptions
        THEN [ret |-> o.up, cmds |-> c0, msgs |-> <<>>]
        ELSE IF "admin" \notin bs
        THEN [ret |-> "False", cmds |-> c0, msgs |-> <<>>]
        ELSE IF o.migrate \in Exceptions
        THEN [ret |-> o.migrate, cmds |-> c1, msgs |-> <<>>]
        ELSE [ret |-> Bool(o.migrate = "0"), cmds |-> c1, msgs |-> <<>>]

\* A faulty variant: the admin binary is looked for first, before any container
\* is started
setup_database_admin_first(o, docker, bs) ==
    LET cu == <<run_command("docker-compose up -d postgres redis", <<>>, o.up)>>
        c0 == IF docker THEN cu ELSE <<>>
        c1 == Append(c0, run_command(AdminTool \o " migrate", <<>>, o.migrate))
    IN  IF "admin" \notin bs
        THEN [ret |-> "False", cmds |-> <<>>,
              msgs |-> <<print_error("Admin tool not found. Build the project first.")>>]
        ELSE IF docker /\ o.up \in Exceptions
        THEN [ret |-> o.up, cmds |-> cu, msgs |-> <<>>]
        ELSE IF docker /\ o.up # "0"
        THEN [ret |-> "False", cmds |-> cu,
              msgs |-> <<print_error("Failed to start Docker services")>>]
        ELSE IF o.migrate \in Exceptions
        THEN [ret |-> o.migrate, cmds |-> c1, msgs |-> <<>>]
        ELSE IF o.migrate # "0"
        THEN [ret |-> "False", cmds |-> c1, msgs |-> <<print_error("Migration failed")>>]
        ELSE [ret |-> "True", cmds |-> c1, msgs |-> <<>>]

\* ConfigurationManager.setup_database; o gives the outcome of the container
\* start, of the sleep that follows it (slept through, or interrupted) and of
\* migrate, bs the binaries present
setup_database(o, docker, bs) ==
    LET m0 == <<print_header("Database Setup")>>
        cu == <<run_command("docker-compose up -d postgres redis", <<>>, o.up)>>
        mu == Append(m0, print_info("Starting database services with Docker..."))
        c0 == IF docker THEN cu ELSE <<>>
        m1 == (IF docker
               THEN mu \o <<print_success("Docker database services started"),
                            print_info("Waiting for databases to be ready...")>>
               ELSE m0) \o <<print_info("Running database migrations...")>>
        c1 == Append(c0, run_command(AdminTool \o " migrate", <<>>, o.migrate))
    IN  IF docker /\ o.up \in Exceptions
        THEN [ret |-> o.up, cmds |-> cu, msgs |-> mu]
        ELSE IF docker /\ o.up # "0"
        THEN [ret |-> "False", cmds |-> cu,
              msgs |-> Append(mu, print_error("Failed to start Docker services"))]
        ELSE IF docker /\ o.sleep = "KeyboardInterrupt"
        THEN [ret |-> o.sleep, cmds |-> cu,
              msgs |-> mu \o <<print_success("Docker database services started"),
                                print_info("Waiting for databases to be ready...")>>,
              at |-> "sleep"]
        ELSE IF "admin" \notin bs
        THEN [ret |-> "False", cmds |-> c0,
              msgs |-> Append(m1, print_error("Admin tool not found. Build the project first."))]
        ELSE IF o.migrate \in Exceptions
        THEN [ret |-> o.migrate, cmds |-> c1, msgs |-> m1]
        ELSE IF o.migrate # "0"
        THEN [ret |-> "False", cmds |-> c1,
              msgs |-> m1 \o <<print_error("Migration failed"),
                               print_info("Make sure the database is running and .env is configured correctly")>>]
        ELSE [ret |-> "True", cmds |-> c1,
              msgs |-> Append(m1, print_success("Database migrations completed successfully"))]

DatabaseOracles == [up : Outcomes, sleep : {"0", "KeyboardInterrupt"}, migrate : Outcomes]

----------------------------------------------------------------------------
(* Prompts. *)

Whitespace == {" ", "\t", NL}

\* str.strip
RECURSIVE lstrip(_)
lstrip(s) == IF s # <<>> /\ Head(s) \in Whitespace THEN lstrip(Tail(s)) ELSE s
RECURSIVE rstrip(_)
rstrip(s) ==
    IF s # <<>> /\ s[Len(s)] \in Whitespace
    THEN rstrip(SubSeq(s, 1, Len(s) - 1)) ELSE s
strip(s) == rstrip(lstrip(s))

UPPERCASE == <<"A","B","C","D","E","F","G","H","I","J","K","L","M",
               "N","O","P","Q","R","S","T","U","V","W","X","Y","Z">>
LOWERCASE == <<"a","b","c","d","e","f","g","h","i","j","k","l","m",
               "n","o","p","q","r","s","t","u","v","w","x","y","z">>
DIGITS == <<"0","1","2","3","4","5","6","7","8","9">>

\* str.lower
lower(s) ==
    [i \in 1..Len(s) |->
        IF \E k \in 1..26 : UPPERCASE[k] = s[i]
        THEN LOWERCASE[CHOOSE k \in 1..26 : UPPERCASE[k] = s[i]]
        ELSE s[i]]

\* input(...).strip().lower() == 'y'
Yes(answer) == lower(strip(answer)) = <<"y">>

\* input(...).strip() or default
OrDefault(answer, default) == IF strip(answer) = <<>> THEN default ELSE strip(answer)

\* what the operator types at a yes/no prompt: a refusal, and a consent that
\* needs both strip and lower to be read as one
YesNoAnswers == {<<"n">>, <<"Y", " ">>}

----------------------------------------------------------------------------
(* create_admin_user *)

\* A faulty variant: an empty password is let through to create-user
create_admin_user_any_password(o, bs) ==
    LET email == strip(o.email)
        password == strip(o.password)
        name == OrDefault(o.name, <<"A","d","m","i","n">>)
        c1 == <<run_command(AdminTool \o " create-user",
                            <<email, password, name>>, o.create)>>
        c2 == Append(c1, run_command(AdminTool \o " make-admin", <<email>>, o.make))
    IN  IF "admin" \notin bs
        THEN [ret |-> "None", cmds |-> <<>>,
              msgs |-> <<print_error("Admin tool not found. Build the project first.")>>]
        ELSE IF email = <<>>
        THEN [ret |-> "None", cmds |-> <<>>, msgs |-> <<print_error("Email is required")>>]
        ELSE IF o.create \in Exceptions
        THEN [ret |-> o.create, cmds |-> c1, msgs |-> <<>>]
        ELSE IF o.create # "0"
        THEN [ret |-> "None", cmds |-> c1, msgs |-> <<print_error("Failed to create user")>>]
        ELSE IF o.make \in Exceptions
        THEN [ret |-> o.make, cmds |-> c2, msgs |-> <<>>]
        ELSE IF o.make # "0"
        THEN [ret |-> "None", cmds |-> c2,
              msgs |-> <<print_error("Failed to grant admin privileges")>>]
        ELSE [ret |-> "None", cmds |-> c2, msgs |-> <<>>]

\* ConfigurationManager.create_admin_user; o gives what the operator types,
\* the prompt at which the operator interrupts input(), if any, and the
\* outcome of create-user and of make-admin
create_admin_user(o, bs) ==
    LET email == strip(o.email)
        password == strip(o.password)
        name == OrDefault(o.name, <<"A","d","m","i","n">>)
        m0 == <<print_header("Create Admin User")>>
        m1 == Append(m0, print_info("Creating user..."))
        c1 == <<run_command(AdminTool \o " create-user",
                            <<email, password, name>>, o.create)>>
        m2 == Append(m1, print_info("Granting admin privileges..."))
        c2 == Append(c1, run_command(AdminTool \o " make-admin", <<email>>, o.make))
    IN  IF "admin" \notin bs
        THEN [ret |-> "None", cmds |-> <<>>,
              msgs |-> Append(m0, print_error("Admin tool not found. Build the project first."))]
        ELSE IF o.interrupt = "email"
        THEN [ret |-> "KeyboardInterrupt", cmds |-> <<>>, msgs |-> m0, at |-> "email"]
        ELSE IF email = <<>>
        THEN [ret |-> "None", cmds |-> <<>>,
              msgs |-> Append(m0, print_error("Email is required"))]
        ELSE IF o.interrupt = "password"
        THEN [ret |-> "KeyboardInterrupt", cmds |-> <<>>, msgs |-> m0, at |-> "password"]
        ELSE IF password = <<>>
        THEN [ret |-> "None", cmds |-> <<>>,
              msgs |-> Append(m0, print_error("Password is required"))]
        ELSE IF o.interrupt = "name"
        THEN [ret |-> "KeyboardInterrupt", cmds |-> <<>>, msgs |-> m0, at |-> "name"]
        ELSE IF o.create \in Exceptions
        THEN [ret |-> o.create, cmds |-> c1, msgs |-> m1]
        ELSE IF o.create # "0"
        THEN [ret |-> "None", cmds |-> c1,
              msgs |-> Append(m1, print_error("Failed to create user"))]
        ELSE IF o.make \in Exceptions
        THEN [ret |-> o.make, cmds |-> c2, msgs |-> m2]
        ELSE IF o.make # "0"
        THEN [ret |-> "None", cmds |-> c2,
              msgs |-> Append(m2, print_error("Failed to grant admin privileges"))]
        ELSE [ret |-> "None", cmds |-> c2,
              msgs |-> Append(m2, print_success("Admin user created"))]

AdminAnswers == {<<>>, <<" ">>, <<"a">>}
\* the oracles of create_admin_user: a prompt that is not shown gets no
\* answer, a command that is not run has no outcome to choose
AdminOracles ==
    LET all == [email : AdminAnswers, password : AdminAnswers, name : {<<>>, <<"a">>},
                interrupt : {"none", "email", "password", "name"},
                create : Outcomes, make : Outcomes]
        e(o) == o.interrupt # "email" /\ strip(o.email) # <<>>
        p(o) == e(o) /\ o.interrupt # "password" /\ strip(o.password) # <<>>
        n(o) == p(o) /\ o.interrupt # "name"
    IN  {o \in all : /\ o.interrupt = "email" => o.email = <<>>
                     /\ ~e(o) => o.password = <<>> /\ o.interrupt \in {"none", "email"}
                     /\ o.interrupt = "password" => o.password = <<>>
                     /\ ~p(o) => o.name = <<>> /\ o.interrupt # "name"
                     /\ o.interrupt = "name" => o.name = <<>>
                     /\ ~n(o) => o.create = "0" /\ o.make = "0"
                     /\ o.create # "0" => o.make = "0"}

----------------------------------------------------------------------------
(* run_tests, start_dev_server, docker_setup, show_status *)

\* A faulty variant: failed tests are not reported by the handler
run_tests_silent(o) ==
    LET m0 == <<print_header("Running Tests"), print_info("Running Go tests...")>>
        c1 == <<run_command("go test -v ./...", <<>>, o)>>
    IN  IF o \in Exceptions THEN [ret |-> o, cmds |-> c1, msgs |-> m0]
        ELSE [ret |-> Bool(o = "0"), cmds |-> c1, msgs |-> m0]

\* ConfigurationManager.run_tests; o is the outcome of go test
run_tests(o) ==
    LET m0 == <<print_header("Running Tests"), print_info("Running Go tests...")>>
        c1 == <<run_command("go test -v ./...", <<>>, o)>>
    IN  IF o \in Exceptions THEN [ret |-> o, cmds |-> c1, msgs |-> m0]
        ELSE IF o = "0"
        THEN [ret |-> "True", cmds |-> c1,
              msgs |-> Append(m0, print_success("All tests passed!"))]
        ELSE [ret |-> "False", cmds |-> c1,
              msgs |-> Append(m0, print_error("Some tests failed"))]

\* A faulty variant: no try around the server's run, the interrupt leaves the
\* handler
start_dev_server_uncaught(o, bs) ==
    LET m0 == <<print_header("Starting Development Server")>>
        m1 == m0 \o <<print_info("Starting server in developer/debug mode..."),
                      print_info("Press Ctrl+C to stop")>>
        c1 == <<run_command("bin/" \o BinaryName("server") \o " -dv -dm", <<>>, o)>>
    IN  IF "server" \notin bs
        THEN [ret |-> "None", cmds |-> <<>>,
              msgs |-> Append(m0, print_error("Server binary not found. Build the project first."))]
        ELSE IF o \in Exceptions THEN [ret |-> o, cmds |-> c1, msgs |-> m1]
        ELSE [ret |-> "None", cmds |-> c1, msgs |-> m1]

\* ConfigurationManager.start_dev_server; o is the outcome of the server's
\* run.  A KeyboardInterrupt while it runs is caught here.
start_dev_server(o, bs) ==
    LET m0 == <<print_header("Starting Development Server")>>
        m1 == m0 \o <<print_info("Starting server in developer/debug mode..."),
                      print_info("Press Ctrl+C to stop")>>
        c1 == <<run_command("bin/" \o BinaryName("server") \o " -dv -dm", <<>>, o)>>
    IN  IF "server" \notin bs
        THEN [ret |-> "None", cmds |-> <<>>,
              msgs |-> Append(m0, print_error("Server binary not found. Build the project first."))]
        ELSE IF o = "KeyboardInterrupt"
        THEN [ret |-> "None", cmds |-> c1,
              msgs |-> Append(m1, print_info("Server stopped"))]
        ELSE IF o \in Exceptions THEN [ret |-> o, cmds |-> c1, msgs |-> m1]
        ELSE [ret |-> "None", cmds |-> c1, msgs |-> m1]

\* ConfigurationManager.docker_setup; o gives the outcome of docker-compose
\* build and of docker-compose up -d
docker_setup(o) ==
    LET m0 == <<print_header("Docker Setup"), print_info("Building Docker images...")>>
        c1 == <<run_command("docker-compose build", <<>>, o.build)>>
        m1 == m0 \o <<print_success("Docker images built successfully"),
                      print_info("Starting Docker services...")>>
        c2 == Append(c1, run_command("docker-compose up -d", <<>>, o.up))
    IN  IF o.build \in Exceptions THEN [ret |-> o.build, cmds |-> c1, msgs |-> m0]
        ELSE IF o.build # "0"
        THEN [ret |-> "False", cmds |-> c1,
              msgs |-> Append(m0, print_error("Docker build failed"))]
        ELSE IF o.up \in Exceptions THEN [ret |-> o.up, cmds |-> c2, msgs |-> m1]
        ELSE IF o.up # "0"
        THEN [ret |-> "False", cmds |-> c2,
              msgs |-> Append(m1, print_error("Failed to start Docker services"))]
        ELSE [ret |-> "True", cmds |-> c2,
              msgs |-> m1 \o <<print_success("Docker services started"),
                               print_info("View logs with: docker-compose logs -f"),
                               print_info("Server running at: http://localhost:8080")>>]

DockerOracles == [build : Outcomes, up : Outcomes]

\* the three binaries in the order show_status lists them
StatusBinaries == <<"server", "client", "admin">>

\* ConfigurationManager.show_status; o.ps is the outcome of docker-compose ps,
\* o.stdout whether it wrote anything
show_status(o, env, bs) ==
    LET m0 == <<print_header("Project Status"),
                IF env.exists THEN print_success(".env file exists")
                ELSE print_warning(".env file not found")>>
        m1 == m0 \o [i \in 1..3 |->
                       IF StatusBinaries[i] \in bs
                       THEN print_success("Binary built: " \o BinaryName(StatusBinaries[i]))
                       ELSE print_warning("Binary not built: " \o BinaryName(StatusBinaries[i]))]
        c1 == <<run_command("docker-compose ps", <<>>, o.ps)>>
    IN  IF o.ps \in Exceptions THEN [ret |-> o.ps, cmds |-> c1, msgs |-> m1]
        ELSE IF o.ps = "0" /\ o.stdout
        THEN [ret |-> "None", cmds |-> c1,
              msgs |-> Append(m1, print("Docker Services:"))]
        ELSE [ret |-> "None", cmds |-> c1, msgs |-> m1]

StatusOracles == [ps : Outcomes, stdout : BOOLEAN]

----------------------------------------------------------------------------
(* generate_secret *)

\* string.ascii_letters + string.digits + "!@#$%^&*(-_=+)"
alphabet ==
    {UPPERCASE[i] : i \in 1..26} \cup {LOWERCASE[i] : i \in 1..26}
        \cup {DIGITS[i] : i \in 1..10}
        \cup {"!", "@", "#", "$", "%", "^", "&", "*", "(", "-", "_", "=", "+", ")"}

\* the characters the model draws a secret from: a letter, a digit, and two of
\* the punctuation marks that mean something in a .env line
SecretSample == {"e", "=", "#"}

\* ConfigurationManager.generate_secret: the values it may return, length
\* characters of the alphabet each (here one drawn character, repeated)
generate_secret(length) == {[i \in 1..length |-> c] : c \in SecretSample}

\* setup_environment asks for a JWT secret of 64 characters.  (It also asks
\* for an API key prefix of 32, which it never uses: that value is not
\* modelled.)
JwtSecretLen == 64

----------------------------------------------------------------------------
(* configure_database, configure_gpu_providers *)

DB_TYPE == <<"D","B","_","T","Y","P","E">>
DB_HOST == <<"D","B","_","H","O","S","T">>
DB_PORT == <<"D","B","_","P","O","R","T">>
DB_USER == <<"D","B","_","U","S","E","R">>
DB_PASSWORD == <<"D","B","_","P","A","S","S","W","O","R","D">>
DB_NAME == <<"D","B","_","N","A","M","E">>
VASTAI_API_KEY == <<"V","A","S","T","A","I","_","A","P","I","_","K","E","Y">>
IONET_API_KEY == <<"I","O","N","E","T","_","A","P","I","_","K","E","Y">>
Postgres == <<"p","o","s","t","g","r","e","s">>
Sqlite == <<"s","q","l","i","t","e">>
DefaultHost == <<"l","o","c","a","l","h","o","s","t">>
DefaultPort == <<"5","4","3","2">>
DefaultUser == Postgres
DefaultPassword == <<"c","h","a","n","g","e","m","e">>
DefaultName == <<"g","p","u","p","r","o","x","y">>
DefaultDbFile == <<".","/","g","p","u","p","r","o","x","y",".","d","b">>

\* update_env_var for each <<key, value>> of kvs in turn, one rewrite each
RECURSIVE Upserts(_, _)
Upserts(env, kvs) ==
    IF kvs = <<>> THEN env
    ELSE Upserts(update_env_var(env, Head(kvs)[1], Head(kvs)[2]), Tail(kvs))

\* ConfigurationManager.configure_database: .env after the sub-flow; o gives
\* what the operator types at each prompt
configure_database(o, env) ==
    LET db_type == OrDefault(o.db_type, Postgres)
    IN  IF db_type = Postgres
        THEN Upserts(env,
                 << <<DB_TYPE, db_type>>,
                    <<DB_HOST, OrDefault(o.db_host, DefaultHost)>>,
                    <<DB_PORT, OrDefault(o.db_port, DefaultPort)>>,
                    <<DB_USER, OrDefault(o.db_user, DefaultUser)>>,
                    <<DB_PASSWORD, OrDefault(o.db_password, DefaultPassword)>>,
                    <<DB_NAME, OrDefault(o.db_name, DefaultName)>> >>)
        ELSE Upserts(env,
                 << <<DB_TYPE, Sqlite>>,
                    <<DB_NAME, OrDefault(o.db_file, DefaultDbFile)>> >>)

\* ConfigurationManager.configure_gpu_providers: .env after the sub-flow
configure_gpu_providers(o, env) ==
    LET e1 == IF strip(o.vastai_key) # <<>>
              THEN update_env_var(env, VASTAI_API_KEY, strip(o.vastai_key)) ELSE env
    IN  IF strip(o.ionet_key) # <<>>
        THEN update_env_var(e1, IONET_API_KEY, strip(o.ionet_key)) ELSE e1

\* what the operator types in the database sub-flow: nothing at all (every
\* default), a PostgreSQL setup typed in full, one field only, and the
\* SQLite branch with and without a file name, reached by any other type
NoDatabaseAnswers ==
    [db_type |-> <<>>, db_host |-> <<>>, db_port |-> <<>>, db_user |-> <<>>,
     db_password |-> <<>>, db_name |-> <<>>, db_file |-> <<>>]
DatabaseAnswers ==
    { NoDatabaseAnswers,
      [NoDatabaseAnswers EXCEPT !.db_type = Postgres, !.db_host = <<"h">>,
           !.db_port = <<"1">>, !.db_user = <<"u">>, !.db_password = <<"p", " ">>,
           !.db_name = <<"d">>],
      [NoDatabaseAnswers EXCEPT !.db_password = <<"p">>],
      [NoDatabaseAnswers EXCEPT !.db_type = Sqlite],
      [NoDatabaseAnswers EXCEPT !.db_type = <<"m","y","s","q","l">>, !.db_file = <<"f">>] }

NoGpuAnswers == [vastai_key |-> <<>>, ionet_key |-> <<>>]
GpuAnswers ==
    { NoGpuAnswers, [NoGpuAnswers EXCEPT !.vastai_key = <<"k">>],
      [vastai_key |-> <<" ">>, ionet_key |-> <<"k">>] }

----------------------------------------------------------------------------
(* setup_environment *)

\* the placeholder line of .env.example and what replaces it
Placeholder == <<"J","W","T","_","S","E","C","R","E","T","=","c","h","a","n","g","e","m","e","-","g","e","n","e","r","a","t","e","-","a","-","s","e","c","u","r","e","-","r","a","n","d","o","m","-","s","t","r","i","n","g">>
JwtPrefix == <<"J","W","T","_","S","E","C","R","E","T","=">>

\* A faulty variant: the return after a declined overwrite is missing, the
\* template is copied all the same
setup_environment_overwrites(o, force, env, example) ==
    LET asked == env.exists /\ ~force
        declined == asked /\ lower(strip(o.overwrite)) # <<"y">>
        m1 == IF declined THEN <<print_info("Skipping environment setup")>> ELSE <<>>
        e1 == File(replace(example.content, Placeholder, JwtPrefix \o o.jwt_secret))
        e2 == IF Yes(o.db) THEN configure_database(o.dbo, e1) ELSE e1
        e3 == IF Yes(o.gpu) THEN configure_gpu_providers(o.gpuo, e2) ELSE e2
    IN  IF ~example.exists
        THEN [ret |-> "None", cmds |-> <<>>, env |-> env,
              jwt_secret |-> <<>>, db |-> FALSE, gpu |-> FALSE,
              msgs |-> Append(m1, print_error(".env.example not found"))]
        ELSE [ret |-> "None", cmds |-> <<>>, env |-> e3,
              jwt_secret |-> o.jwt_secret, db |-> Yes(o.db), gpu |-> Yes(o.gpu),
              msgs |-> Append(m1, print_success("Environment configuration saved"))]

\* ConfigurationManager.setup_environment; o gives what the operator types,
\* the yes/no prompt at which the operator interrupts input(), if any,
\* and the secrets generate_secret returns
setup_environment(o, force, env, example) ==
    LET m0 == <<print_header("Environment Configuration")>>
        asked == env.exists /\ ~force
        m1 == IF asked THEN Append(m0, print_warning(".env file already exists")) ELSE m0
        content == replace(example.content, Placeholder, JwtPrefix \o o.jwt_secret)
        m2 == m1 \o <<print_success("Created .env from .env.example"),
                      print_info("Generating secure secrets..."),
                      print_success("Generated secure JWT secret"),
                      print("Optional Configuration:"),
                      print("You can configure these now or edit .env later")>>
        e1 == File(content)
        e2 == IF Yes(o.db) THEN configure_database(o.dbo, e1) ELSE e1
        m3 == IF Yes(o.db) THEN Append(m2, print("Database Configuration:")) ELSE m2
        e3 == IF Yes(o.gpu) THEN configure_gpu_providers(o.gpuo, e2) ELSE e2
        m4 == IF Yes(o.gpu)
              THEN m3 \o <<print("GPU Provider Configuration:"), print("(Leave blank to skip)")>>
              ELSE m3
    IN  IF asked /\ o.interrupt = "overwrite"
        THEN [ret |-> "KeyboardInterrupt", cmds |-> <<>>, env |-> env,
              jwt_secret |-> <<>>, db |-> FALSE, gpu |-> FALSE,
              msgs |-> m1, at |-> "overwrite"]
        ELSE IF asked /\ lower(strip(o.overwrite)) # <<"y">>
        THEN [ret |-> "None", cmds |-> <<>>, env |-> env,
              jwt_secret |-> <<>>, db |-> FALSE, gpu |-> FALSE,
              msgs |-> Append(m1, print_info("Skipping environment setup"))]
        ELSE IF ~example.exists
        THEN [ret |-> "None", cmds |-> <<>>, env |-> env,
              jwt_secret |-> <<>>, db |-> FALSE, gpu |-> FALSE,
              msgs |-> Append(m1, print_error(".env.example not found"))]
        ELSE IF o.interrupt = "database"
        THEN [ret |-> "KeyboardInterrupt", cmds |-> <<>>, env |-> e1,
              jwt_secret |-> o.jwt_secret, db |-> FALSE, gpu |-> FALSE,
              msgs |-> m2, at |-> "database"]
        ELSE IF o.interrupt = "providers"
        THEN [ret |-> "KeyboardInterrupt", cmds |-> <<>>, env |-> e2,
              jwt_secret |-> o.jwt_secret, db |-> Yes(o.db), gpu |-> FALSE,
              msgs |-> m3, at |-> "providers"]
        ELSE [ret |-> "None", cmds |-> <<>>, env |-> e3,
              jwt_secret |-> o.jwt_secret, db |-> Yes(o.db), gpu |-> Yes(o.gpu),
              msgs |-> m4 \o <<print_success("Environment configuration saved"),
                               print_info("Review and update .env as needed before running the server")>>]

\* the oracles of setup_environment: a prompt that is not shown gets no
\* answer, a secret that is not generated is not drawn
SetupOracles(force, env, example, who) ==
    LET asked == env.exists /\ ~force
        ow == IF asked THEN YesNoAnswers ELSE {<<>>}
        yn == IF who = "terse" THEN {<<"n">>} ELSE YesNoAnswers
        quiet == [overwrite : {w \in ow : ~example.exists \/ (asked /\ ~Yes(w))},
                  interrupt : {"none"},
                  jwt_secret : {<<>>}, db : {<<>>}, dbo : {NoDatabaseAnswers},
                  gpu : {<<>>}, gpuo : {NoGpuAnswers}]
        stopped == [overwrite : {<<>>},
                    interrupt : IF asked THEN {"overwrite"} ELSE {},
                    jwt_secret : {<<>>}, db : {<<>>}, dbo : {NoDatabaseAnswers},
                    gpu : {<<>>}, gpuo : {NoGpuAnswers}]
        full == [overwrite : {w \in ow : asked => Yes(w)},
                 interrupt : {"none", "database", "providers"},
                 jwt_secret : generate_secret(JwtSecretLen),
                 db : yn, dbo : DatabaseAnswers, gpu : yn, gpuo : GpuAnswers]
    IN  quiet \cup stopped \cup
        (IF example.exists
         THEN {o \in full : /\ ~Yes(o.db) => o.dbo = NoDatabaseAnswers
                            /\ ~Yes(o.gpu) => o.gpuo = NoGpuAnswers
                            /\ o.interrupt = "database" =>
                                   o.db = <<"n">> /\ o.gpu = <<"n">>
                            /\ o.interrupt = "providers" => o.gpu = <<"n">>}
         ELSE {})

----------------------------------------------------------------------------
(* main: the dispatcher *)

Steps == <<"check", "deps", "env", "build", "db", "create_admin", "test",
           "docker", "dev", "status">>
StepNames == {Steps[i] : i \in 1..Len(Steps)}
Modifiers == {"debug", "force", "docker_db"}
Flags == StepNames \cup {"setup"} \cup Modifiers

NoExit == -1

\* the condition main() puts before each step
Requested(step, a) ==
    \/ step \in a
    \/ step \in {"check", "deps", "build"} /\ "setup" \in a

\* A faulty variant: the conditions before the steps forgotten: every step runs
PcAfterNoSkip(i, a) == IF i >= Len(Steps) THEN "next_steps" ELSE Steps[i + 1]

\* where main() stands after its i-th if: before the next step whose
\* condition holds, or past the last one
RECURSIVE PcAfter(_, _)
PcAfter(i, a) ==
    IF i >= Len(Steps) THEN "next_steps"
    ELSE IF Requested(Steps[i + 1], a) THEN Steps[i + 1]
    ELSE PcAfter(i + 1, a)

StepIndex(step) == CHOOSE i \in 1..Len(Steps) : Steps[i] = step

\* the record of a handler call; the fields a handler has no use for are empty
NoCall == [op |-> "none", ret |-> "None", cmds |-> <<>>, msgs |-> <<>>,
           envBefore |-> NoFile, binsBefore |-> {},
           key |-> <<>>, value |-> <<>>,
           jwt_secret |-> <<>>, db |-> FALSE, gpu |-> FALSE, at |-> "none",
           answers |-> NoDatabaseAnswers]

\* at is where an interrupt met the handler outside an external command: at a
\* prompt, or in the sleep after the container start
Call(step, r, env, bs) ==
    [NoCall EXCEPT !.op = step, !.ret = r.ret, !.cmds = r.cmds, !.msgs = r.msgs,
                   !.envBefore = env, !.binsBefore = bs,
                   !.at = IF "at" \in DOMAIN r THEN r.at ELSE "none"]

CmdNames(c) == [i \in 1..Len(c) |-> c[i].cmd]

\* A faulty variant: no help mode: a command line with no argument runs the pipeline
ParseArgsNoHelp ==
    /\ pc = "start"
    /\ pc' = PcAfter(0, args)
    /\ UNCHANGED <<printed, exitCode, args, started, cmds, envFile, envExample,
                   binDir, bins, envInit, operator, writers, last>>

\* parse_args, and the help mode of a command line with no argument
ParseArgs ==
    /\ pc = "start"
    /\ IF args = {}
       THEN /\ printed' = Append(printed, print("usage"))
            /\ exitCode' = 0
            /\ pc' = "exit"
       ELSE /\ pc' = PcAfter(0, args)
            /\ UNCHANGED <<printed, exitCode>>
    /\ UNCHANGED <<args, started, cmds, envFile, envExample, binDir, bins,
                   envInit, operator, writers, last>>

\* A faulty variant: every handler's result tested like a fatal one, "if not
\* manager.step(): sys.exit(1)": a handler that returns None ends the run
DispatchFalsy(step, r, fatal, failure) ==
    /\ started' = Append(started, step)
    /\ cmds' = cmds \o CmdNames(r.cmds)
    /\ IF r.ret = "KeyboardInterrupt"
       THEN /\ printed' = Append(printed, print_info("Operation cancelled by user"))
            /\ exitCode' = 130
            /\ pc' = "exit"
       ELSE IF r.ret \in Exceptions
       THEN /\ printed' = Append(printed, print_error("Unexpected error"))
            /\ exitCode' = 1
            /\ pc' = "exit"
       ELSE IF r.ret \in {"False", "None"}
       THEN /\ printed' = printed \o failure
            /\ exitCode' = 1
            /\ pc' = "exit"
       ELSE /\ pc' = PcAfter(StepIndex(step), args)
            /\ UNCHANGED <<printed, exitCode>>
    /\ UNCHANGED <<args, envExample, envInit, operator, writers>>

\* One step of main()'s try block: the handler of step was called and came
\* to r.  fatal tells whether main() exits when it returns False, and failure
\* is what main() prints before that exit.  An exception leaves by one of the
\* two except clauses.
Dispatch(step, r, fatal, failure) ==
    /\ started' = Append(started, step)
    /\ cmds' = cmds \o CmdNames(r.cmds)
    /\ IF r.ret = "KeyboardInterrupt"
       THEN /\ printed' = Append(printed, print_info("Operation cancelled by user"))
            /\ exitCode' = 130
            /\ pc' = "exit"
       ELSE IF r.ret \in Exceptions
       THEN /\ printed' = Append(printed, print_error("Unexpected error"))
            /\ exitCode' = 1
            /\ pc' = "exit"
       ELSE IF fatal /\ r.ret = "False"
       THEN /\ printed' = printed \o failure
            /\ exitCode' = 1
            /\ pc' = "exit"
       ELSE /\ pc' = PcAfter(StepIndex(step), args)
            /\ UNCHANGED <<printed, exitCode>>
    /\ UNCHANGED <<args, envExample, envInit, operator, writers>>

CheckDependencies ==
    /\ pc = "check"
    /\ \E o \in CheckOracles :
          LET r == check_dependencies(o)
          IN  /\ Dispatch("check", r, TRUE, <<print_error("Dependency check failed")>>)
              /\ last' = Call("check", r, envFile, bins)
    /\ UNCHANGED <<envFile, binDir, bins>>

InstallDependencies ==
    /\ pc = "deps"
    /\ \E o \in InstallOracles :
          LET r == install_dependencies(o)
          IN  /\ Dispatch("deps", r, TRUE,
                          <<print_error("Failed to install dependencies")>>)
              /\ last' = Call("deps", r, envFile, bins)
    /\ UNCHANGED <<envFile, binDir, bins>>

SetupEnvironment ==
    /\ pc = "env"
    /\ \E o \in SetupOracles("force" \in args, envFile, envExample, operator) :
          LET r == setup_environment(o, "force" \in args, envFile, envExample)
          IN  /\ Dispatch("env", r, FALSE, <<>>)
              /\ last' = [Call("env", r, envFile, bins) EXCEPT
                              !.jwt_secret = r.jwt_secret, !.db = r.db, !.gpu = r.gpu]
              /\ envFile' = r.env
    /\ UNCHANGED <<binDir, bins>>

BuildProject ==
    /\ pc = "build"
    /\ \E o \in BuildOracles :
          LET r == build_project(o, "debug" \in args, bins)
          IN  /\ Dispatch("build", r, TRUE, <<print_error("Build failed")>>)
              /\ last' = Call("build", r, envFile, bins)
              /\ binDir' = r.dir
              /\ bins' = r.bins
    /\ UNCHANGED envFile

SetupDatabase ==
    /\ pc = "db"
    /\ \E o \in DatabaseOracles :
          LET r == setup_database(o, "docker_db" \in args, bins)
          IN  /\ Dispatch("db", r, TRUE, <<print_error("Database setup failed")>>)
              /\ last' = Call("db", r, envFile, bins)
    /\ UNCHANGED <<envFile, binDir, bins>>

CreateAdminUser ==
    /\ pc = "create_admin"
    /\ \E o \in AdminOracles :
          LET r == create_admin_user(o, bins)
          IN  /\ Dispatch("create_admin", r, FALSE, <<>>)
              /\ last' = Call("create_admin", r, envFile, bins)
    /\ UNCHANGED <<envFile, binDir, bins>>

RunTests ==
    /\ pc = "test"
    /\ \E o \in Outcomes :
          LET r == run_tests(o)
          IN  /\ Dispatch("test", r, TRUE, <<>>)
              /\ last' = Call("test", r, envFile, bins)
    /\ UNCHANGED <<envFile, binDir, bins>>

\* A faulty variant: docker_setup's result is not tested, like create_admin_user's
DockerSetupNotFatal ==
    /\ pc = "docker"
    /\ \E o \in DockerOracles :
          LET r == docker_setup(o)
          IN  /\ Dispatch("docker", r, FALSE, <<>>)
              /\ last' = Call("docker", r, envFile, bins)
    /\ UNCHANGED <<envFile, binDir, bins>>

DockerSetup ==
    /\ pc = "docker"
    /\ \E o \in DockerOracles :
          LET r == docker_setup(o)
          IN  /\ Dispatch("docker", r, TRUE, <<print_error("Docker setup failed")>>)
              /\ last' = Call("docker", r, envFile, bins)
    /\ UNCHANGED <<envFile, binDir, bins>>

StartDevServer ==
    /\ pc = "dev"
    /\ \E o \in Outcomes :
          LET r == start_dev_server(o, bins)
          IN  /\ Dispatch("dev", r, FALSE, <<>>)
              /\ last' = Call("dev", r, envFile, bins)
    /\ UNCHANGED <<envFile, binDir, bins>>

ShowStatus ==
    /\ pc = "status"
    /\ \E o \in StatusOracles :
          LET r == show_status(o, envFile, bins)
          IN  /\ Dispatch("status", r, FALSE, <<>>)
              /\ last' = Call("status", r, envFile, bins)
    /\ UNCHANGED <<envFile, binDir, bins>>

\* the end of the try block: the next steps after --setup, then exit code 0
Finish ==
    /\ pc = "next_steps"
    /\ printed' = IF "setup" \in args
                  THEN printed \o <<print_header("Setup Complete!"), print("Next Steps:")>>
                  ELSE printed
    /\ exitCode' = 0
    /\ pc' = "exit"
    /\ UNCHANGED <<args, started, cmds, envFile, envExample, binDir, bins,
                   envInit, operator, writers, last>>

Next ==
    \/ ParseArgs
    \/ CheckDependencies
    \/ InstallDependencies
    \/ SetupEnvironment
    \/ BuildProject
    \/ SetupDatabase
    \/ CreateAdminUser
    \/ RunTests
    \/ DockerSetup
    \/ StartDevServer
    \/ ShowStatus
    \/ Finish

\* a small template and a .env made from it on an earlier run
Template == Placeholder \o <<"\n","D","B","_","H","O","S","T","=","d","b","\n">>
OldEnv == <<"J","W","T","_","S","E","C","R","E","T","=","o","l","d","\n">>

\* the run begins: any command line of at most MaxFlags flags, in a checkout
\* with or without .env, .env.example and built binaries
Init ==
    /\ args \in {a \in SUBSET Flags : Cardinality(a) <= MaxFlags}
    /\ pc = "start"
    /\ exitCode = NoExit
    /\ started = <<>>
    /\ cmds = <<>>
    /\ printed = <<>>
    /\ envFile \in {NoFile, File(OldEnv)}
    /\ envExample \in {NoFile, File(Template)}
    /\ bins \in {{}, Targets}
    /\ binDir = (bins # {})
    /\ envInit = envFile
    /\ operator = "terse"
    /\ writers = NoWriters
    /\ last = NoCall

Spec == Init /\ [][Next]_vars

----------------------------------------------------------------------------
(* setup_environment end to end: ./configure.py --env [--force] *)

\* templates with the placeholder once, twice (the second time in a comment),
\* not at all, and as a last line with no line terminator
SetupTemplates ==
    { Template,
      <<"#"," ","c","\n">> \o Placeholder \o <<NL>>,
      Placeholder \o <<"\n","#"," ">> \o Placeholder \o <<NL>>,
      <<"D","B","_","T","Y","P","E","=","s","q","l","i","t","e","\n","D","B","_","N","A","M","E","=","x","\n">>,
      <<"P","O","R","T","=","1","\n">> \o Placeholder }

InitSetup ==
    /\ args \in {{"env"}, {"env", "force"}}
    /\ pc = "start"
    /\ exitCode = NoExit
    /\ started = <<>>
    /\ cmds = <<>>
    /\ printed = <<>>
    /\ envFile \in {NoFile, File(OldEnv)}
    /\ envExample \in {NoFile} \cup {File(c) : c \in SetupTemplates}
    /\ bins = {}
    /\ binDir = FALSE
    /\ envInit = envFile
    /\ operator = "thorough"
    /\ writers = NoWriters
    /\ last = NoCall

NextSetup ==
    \/ ParseArgs
    \/ SetupEnvironment
    \/ Finish

SpecSetup == InitSetup /\ [][NextSetup]_vars

----------------------------------------------------------------------------
(* update_env_var called on its own, on every small .env *)

EnvChars == {"A", "B", "=", "1", "#", NL}
EnvKeys == {<<"A">>, <<"B">>}
EnvValues == {<<"1">>, <<"2">>}

TextsUpTo(n) == UNION {[1..k -> EnvChars] : k \in 0..n}

InitEnv ==
    /\ args = {}
    /\ pc = "lib"
    /\ exitCode = NoExit
    /\ started = <<>>
    /\ cmds = <<>>
    /\ printed = <<>>
    /\ envFile \in {NoFile} \cup {File(c) : c \in TextsUpTo(MaxFileLen)}
    /\ envExample = NoFile
    /\ bins = {}
    /\ binDir = FALSE
    /\ envInit = envFile
    /\ operator = "thorough"
    /\ writers = NoWriters
    /\ last = NoCall

UpdateEnvVar ==
    /\ pc = "lib"
    /\ \E key \in EnvKeys, value \in EnvValues :
          /\ envFile' = update_env_var(envFile, key, value)
          /\ last' = [NoCall EXCEPT !.op = "update_env_var", !.key = key,
                                    !.value = value, !.envBefore = envFile]
    /\ UNCHANGED <<args, pc, exitCode, started, cmds, printed, envExample,
                   binDir, bins, envInit, operator, writers>>

NextEnv == UpdateEnvVar

SpecEnv == InitEnv /\ [][NextEnv]_vars

----------------------------------------------------------------------------
(* configure_database called on its own, on every small .env and on some
   that hold database settings already.  setup_environment calls it after
   it has written .env, so .env exists. *)

DbFiles ==
    { <<"D","B","_","T","Y","P","E","=","s","q","l","i","t","e","\n","D","B","_","N","A","M","E","=","x","\n">>,
      <<"#"," ","c","\n","D","B","_","H","O","S","T","=","d","b","\n","\n","P","O","R","T","=","1","\n">>,
      <<"D","B","_","N","A","M","E","=","a","\n","D","B","_","N","A","M","E","=","b","\n">>,
      <<"D","B","_","P","O","R","T","=","1","\n","D","B","_","U","S","E","R","=","u">> }

InitDb ==
    /\ args = {}
    /\ pc = "lib"
    /\ exitCode = NoExit
    /\ started = <<>>
    /\ cmds = <<>>
    /\ printed = <<>>
    /\ envFile \in {File(c) : c \in TextsUpTo(MaxFileLen) \cup DbFiles}
    /\ envExample = NoFile
    /\ bins = {}
    /\ binDir = FALSE
    /\ envInit = envFile
    /\ operator = "thorough"
    /\ writers = NoWriters
    /\ last = NoCall

ConfigureDatabase ==
    /\ pc = "lib"
    /\ \E o \in DatabaseAnswers :
          /\ envFile' = configure_database(o, envFile)
          /\ last' = [NoCall EXCEPT !.op = "configure_database", !.answers = o,
                                    !.envBefore = envFile]
    /\ pc' = "returned"
    /\ UNCHANGED <<args, exitCode, started, cmds, printed, envExample,
                   binDir, bins, envInit, operator, writers>>

NextDb == ConfigureDatabase

SpecDb == InitDb /\ [][NextDb]_vars

----------------------------------------------------------------------------
(* Two invocations of the tool in update_env_var on the same .env.  There is
   no lock: each reads all lines, changes its own copy, opens .env for
   writing, which empties it, and writes its lines from the start of the
   file through a file offset of its own. *)

RaceProcs == {1, 2}
RaceValues == {<<"1">>, <<"2", "2">>}
RaceFiles ==
    { <<>>, <<"A", "=", "1", NL>>, <<"A", "=", "2", "2", NL, "#", NL>>,
      <<"#", NL, "B", "=", "1", NL>> }

\* an invocation that has not yet entered update_env_var
NotCalled ==
    [pc |-> "call", key |-> <<>>, value |-> <<>>, read |-> <<>>, lines |-> <<>>,
     openedAt |-> 0, wroteAt |-> 0]

\* the opens and writes so far, to number the next one
RaceClock ==
    Cardinality({p \in RaceProcs : writers[p].openedAt > 0})
        + Cardinality({p \in RaceProcs : writers[p].wroteAt > 0})

\* write(2) of data at offset 0 of a file that holds old: what lies beyond
\* the data stays
Overwrite(old, data) == data \o SubSeq(old, Len(data) + 1, Len(old))

InitRace ==
    /\ args = {}
    /\ pc = "lib"
    /\ exitCode = NoExit
    /\ started = <<>>
    /\ cmds = <<>>
    /\ printed = <<>>
    /\ envFile \in {NoFile} \cup {File(c) : c \in RaceFiles}
    /\ envExample = NoFile
    /\ bins = {}
    /\ binDir = FALSE
    /\ envInit = envFile
    /\ operator = "thorough"
    /\ writers = [p \in RaceProcs |-> NotCalled]
    /\ last = NoCall

\* update_env_var up to the end of its loop: the early return when there is
\* no .env, readlines, and the change made in memory
RaceRead ==
    /\ \E p \in RaceProcs, key \in EnvKeys, value \in RaceValues :
          /\ writers[p].pc = "call"
          /\ writers' = [writers EXCEPT ![p] =
                 IF ~envFile.exists
                 THEN [@ EXCEPT !.pc = "done", !.key = key, !.value = value]
                 ELSE [@ EXCEPT !.pc = "read", !.key = key, !.value = value,
                                !.read = envFile.content,
                                !.lines = UpsertLines(readlines(envFile.content),
                                                      key, value)]]
    /\ UNCHANGED <<args, pc, exitCode, started, cmds, printed, envFile, envExample,
                   binDir, bins, envInit, operator, last>>

\* A faulty variant: .env opened for update, not emptied
RaceOpenNoTruncate ==
    /\ \E p \in RaceProcs :
          /\ writers[p].pc = "read"
          /\ writers' = [writers EXCEPT ![p] =
                 [@ EXCEPT !.pc = "open", !.openedAt = RaceClock + 1]]
    /\ UNCHANGED <<args, pc, exitCode, started, cmds, printed, envFile, envExample,
                   binDir, bins, envInit, operator, last>>

\* open(self.env_file, 'w'): .env is emptied
RaceOpen ==
    /\ \E p \in RaceProcs :
          /\ writers[p].pc = "read"
          /\ envFile' = File(<<>>)
          /\ writers' = [writers EXCEPT ![p] =
                 [@ EXCEPT !.pc = "open", !.openedAt = RaceClock + 1]]
    /\ UNCHANGED <<args, pc, exitCode, started, cmds, printed, envExample,
                   binDir, bins, envInit, operator, last>>

\* f.writelines(lines) and the close that ends the with block
RaceWrite ==
    /\ \E p \in RaceProcs :
          /\ writers[p].pc = "open"
          /\ envFile' = File(Overwrite(envFile.content, writelines(writers[p].lines)))
          /\ writers' = [writers EXCEPT ![p] =
                 [@ EXCEPT !.pc = "done", !.wroteAt = RaceClock + 1]]
    /\ UNCHANGED <<args, pc, exitCode, started, cmds, printed, envExample,
                   binDir, bins, envInit, operator, last>>

NextRace ==
    \/ RaceRead
    \/ RaceOpen
    \/ RaceWrite

SpecRace == InitRace /\ [][NextRace]_vars

----------------------------------------------------------------------------
(* The claims: what they speak of. *)

\* the pipeline order as the specification gives it
PipelineOrder == <<"check", "deps", "env", "build", "db", "create_admin",
                   "test", "docker", "dev", "status">>
Position(step) == CHOOSE i \in 1..Len(PipelineOrder) : PipelineOrder[i] = step

\* a step's own flag was given, or --setup for the three steps it implies
FlagGiven(step) ==
    step \in args \/ ("setup" \in args /\ step \in {"check", "deps", "build"})

\* where main() must stand after step when the run goes on: before the first
\* later step whose flag was given, or past the pipeline
LaterStep(step) ==
    LET later == {j \in (Position(step) + 1)..Len(PipelineOrder) :
                      FlagGiven(PipelineOrder[j])}
    IN  IF later = {} THEN "next_steps"
        ELSE PipelineOrder[CHOOSE j \in later : \A k \in later : j <= k]

\* how often the last handler call invoked a command, and what became of it
Count(names) == Cardinality({i \in 1..Len(last.cmds) : last.cmds[i].cmd \in names})
OutcomeOf(names) ==
    IF Count(names) = 0 THEN "none"
    ELSE last.cmds[CHOOSE i \in 1..Len(last.cmds) : last.cmds[i].cmd \in names].out
Printed(m) == \E i \in 1..Len(last.msgs) : last.msgs[i] = m

ProbeCmds == {"go version", "docker --version", "docker-compose --version",
              "git --version"}
InstallCmds == {"go mod download", "go mod tidy"}
Compile(target) ==
    { "go build -o bin/" \o BinaryName(target) \o " ./cmd/" \o target,
      "go build -gcflags all=-N -l -o bin/" \o BinaryName(target) \o " ./cmd/" \o target }
CompileCmds == UNION {Compile(t) : t \in Targets}
ContainerStart == {"docker-compose up -d postgres redis"}
Migrate == {"bin/aiserve-gpuproxy-admin migrate"}

----------------------------------------------------------------------------
(* C1 *)

\* C1: for every combination of flags, the steps that start form a
\* subsequence of the fixed pipeline order: each starts at most once, never
\* before a step that precedes it, and only if its own flag was given (or
\* --setup, for check, deps and build).
C1_PipelineOrder ==
    /\ \A i \in 1..Len(started) :
          /\ \E j \in 1..Len(PipelineOrder) : PipelineOrder[j] = started[i]
          /\ FlagGiven(started[i])
    /\ \A i, j \in 1..Len(started) :
          i < j => Position(started[i]) < Position(started[j])

\* a run of --setup --env --status that started its five steps
C1_Witness == started = <<"check", "deps", "env", "build", "status">>

----------------------------------------------------------------------------
(* C2 *)

C2_EnvFailed ==
    /\ last.op = "env"
    /\ \/ Printed(print_info("Skipping environment setup"))
       \/ Printed(print_error(".env.example not found"))
C2_AdminFailed ==
    /\ last.op = "create_admin"
    /\ \/ Printed(print_error("Admin tool not found. Build the project first."))
       \/ Printed(print_error("Email is required"))
       \/ Printed(print_error("Password is required"))
       \/ OutcomeOf({"bin/aiserve-gpuproxy-admin create-user"}) = "1"
       \/ OutcomeOf({"bin/aiserve-gpuproxy-admin make-admin"}) = "1"
C2_StatusFailed ==
    /\ last.op = "status"
    /\ OutcomeOf({"docker-compose ps"}) = "1"

----------------------------------------------------------------------------
(* C3 *)

C3_RequiredProbeFailed ==
    /\ last.op = "check"
    /\ \/ OutcomeOf({"go version"}) \in {"1", "OSError"}
       \/ OutcomeOf({"git --version"}) \in {"1", "OSError"}

\* C3, as claimed: with --setup and a failing probe of go or git, the run
\* exits with code 1 and no install command and no build command is invoked
\* in it.  (An interrupt during a later probe makes the exit code 130.)
C3_AsClaimed ==
    ("setup" \in args /\ C3_RequiredProbeFailed) =>
        /\ pc = "exit" /\ exitCode = 1
        /\ \A i \in 1..Len(cmds) : cmds[i] \notin InstallCmds \cup CompileCmds

\* C3, amended: with --setup and a failing probe of go or git, the run exits
\* with code 1, or with code 130 when the operator interrupts one of the
\* probes that follow, and no install command and no build command is
\* invoked in it.
C3_SetupStopsAtFailedProbe ==
    ("setup" \in args /\ C3_RequiredProbeFailed) =>
        /\ pc = "exit"
        /\ exitCode = IF last.ret = "KeyboardInterrupt" THEN 130 ELSE 1
        /\ ~ENABLED Next
        /\ \A i \in 1..Len(cmds) : cmds[i] \notin InstallCmds \cup CompileCmds

\* --setup, go not found, and the probe of docker interrupted
C3_Witness ==
    /\ "setup" \in args
    /\ last.op = "check"
    /\ OutcomeOf({"go version"}) = "1"
    /\ OutcomeOf({"docker --version"}) = "KeyboardInterrupt"
    /\ exitCode = 130

----------------------------------------------------------------------------
(* C4 *)

\* C4: with no flag at all the dispatcher prints the usage and exits with
\* code 0; no external command is invoked and no step starts.
C4_ZeroFlagsHelp ==
    args = {} =>
        /\ cmds = <<>> /\ started = <<>>
        /\ pc \in {"start", "exit"}
        /\ pc = "exit" => exitCode = 0 /\ printed = <<print("usage")>>

C4_Witness == args = {} /\ pc = "exit"

----------------------------------------------------------------------------
(* C5 *)

C5_OnlyClientFails ==
    /\ OutcomeOf(Compile("server")) = "0"
    /\ OutcomeOf(Compile("client")) = "1"
    /\ OutcomeOf(Compile("admin")) = "0"

\* C5, as claimed: if the server compile fails the build fails and the client
\* and the admin tool are still compiled once each; if only the client
\* fails the build succeeds.  (The code returns at the failed server compile.)
C5_AsClaimed ==
    last.op = "build" =>
        /\ OutcomeOf(Compile("server")) = "1" =>
              /\ last.ret = "False"
              /\ Count(Compile("client")) = 1
              /\ Count(Compile("admin")) = 1
        /\ C5_OnlyClientFails => last.ret = "True"

\* C5, amended: if the server compile fails the build fails and neither the
\* client nor the admin tool is compiled; if only the client fails the build
\* succeeds, each target compiled once.
C5_ServerFailureAborts ==
    last.op = "build" =>
        /\ OutcomeOf(Compile("server")) = "1" =>
              /\ last.ret = "False"
              /\ Count(Compile("server")) = 1
              /\ Count(Compile("client")) = 0
              /\ Count(Compile("admin")) = 0
        /\ C5_OnlyClientFails =>
              /\ last.ret = "True"
              /\ \A t \in Targets : Count(Compile(t)) = 1

C5_Witness == last.op = "build" /\ OutcomeOf(Compile("server")) = "1"

----------------------------------------------------------------------------
(* C6 *)

C6_StartBeforeMigrate ==
    \A i, j \in 1..Len(last.cmds) :
        (last.cmds[i].cmd \in ContainerStart /\ last.cmds[j].cmd \in Migrate) => i < j

\* C6, as claimed: migrate is never invoked when the admin binary is absent;
\* when it is present migrate is invoked exactly once, whatever the outcome
\* of the container start; a container start occurs, before migrate, only
\* when --docker-db was given.
C6_AsClaimed ==
    last.op = "db" =>
        /\ "admin" \notin last.binsBefore => Count(Migrate) = 0
        /\ "admin" \in last.binsBefore => Count(Migrate) = 1
        /\ Count(ContainerStart) > 0 => "docker_db" \in args
        /\ C6_StartBeforeMigrate

\* C6, amended: migrate is never invoked when the admin binary is absent;
\* when it is present migrate is invoked exactly once if --docker-db was not
\* given or the container start returned 0 and the wait that follows it was
\* not interrupted, and not at all otherwise; a container start occurs, once
\* and before migrate, only when --docker-db was given.
C6_MigrateAfterStart ==
    last.op = "db" =>
        /\ "admin" \notin last.binsBefore => Count(Migrate) = 0
        /\ "admin" \in last.binsBefore =>
              Count(Migrate) =
                  IF "docker_db" \in args =>
                         OutcomeOf(ContainerStart) = "0" /\ last.at # "sleep"
                  THEN 1 ELSE 0
        /\ Count(ContainerStart) = IF "docker_db" \in args THEN 1 ELSE 0
        /\ C6_StartBeforeMigrate

\* the admin binary is there, --docker-db was given, the container start failed
C6_Witness ==
    /\ last.op = "db"
    /\ "admin" \in last.binsBefore
    /\ "docker_db" \in args
    /\ OutcomeOf(ContainerStart) = "1"

----------------------------------------------------------------------------
(* C7, C8, C9: what they speak of *)

\* a line without its terminator
Body(line) ==
    IF line # <<>> /\ line[Len(line)] = NL THEN SubSeq(line, 1, Len(line) - 1)
    ELSE line

\* the lines of a text, as an editor shows them
LinesOf(content) == [i \in 1..Len(readlines(content)) |-> Body(readlines(content)[i])]

\* a KEY=VALUE line, its key, and the lines that are none (comments, blanks
\* and whatever else has no = in it)
IsKeyValue(l) == ~startswith(l, <<"#">>) /\ "=" \in Chars(l)
KeyOf(l) == SubSeq(l, 1, find(l, <<"=">>) - 1)
IsSetting(l, key) == startswith(l, key \o <<"=">>)
RECURSIVE OtherLines(_)
OtherLines(ls) ==
    IF ls = <<>> THEN <<>>
    ELSE IF IsKeyValue(Head(ls)) THEN OtherLines(Tail(ls))
    ELSE <<Head(ls)>> \o OtherLines(Tail(ls))
UniqueKeys(ls) ==
    \A i, j \in 1..Len(ls) :
        (IsKeyValue(ls[i]) /\ IsKeyValue(ls[j]) /\ KeyOf(ls[i]) = KeyOf(ls[j])) => i = j

\* a text whose last line, if it has one, ends with a line terminator
Terminated(content) == content = <<>> \/ content[Len(content)] = NL

----------------------------------------------------------------------------
(* C7 *)

\* C7, as claimed: update_env_var on a key that has a KEY= line leaves the
\* number of lines unchanged and every other line identical and in place;
\* on a key that has none it leaves the existing lines identical and in
\* place and adds exactly one line, the last, KEY=VALUE, also when the
\* previous last line had no line terminator.  (The code appends KEY=VALUE
\* to an unterminated last line.)
C7_AsClaimed ==
    (last.op = "update_env_var" /\ last.envBefore.exists) =>
        LET before == LinesOf(last.envBefore.content)
            after == LinesOf(envFile.content)
            at == {i \in 1..Len(before) : IsSetting(before[i], last.key)}
        IN  IF at # {}
            THEN /\ Len(after) = Len(before)
                 /\ \E i \in at :
                       \A j \in 1..Len(before) : j # i => after[j] = before[j]
            ELSE /\ Len(after) = Len(before) + 1
                 /\ \A j \in 1..Len(before) : after[j] = before[j]
                 /\ after[Len(after)] = last.key \o <<"=">> \o last.value

\* .env is "A=1" with no line terminator, and B is set: one line, "A=1B=2"
C7_Witness ==
    /\ last.op = "update_env_var"
    /\ last.envBefore = File(<<"A", "=", "1">>)
    /\ last.key = <<"B">> /\ last.value = <<"2">>
    /\ envFile = File(<<"A", "=", "1", "B", "=", "2", NL>>)

\* C7 where the code keeps it: on a .env whose last line is terminated the
\* claim holds as it stands.
C7_OnTerminated == Terminated(last.envBefore.content) => C7_AsClaimed

----------------------------------------------------------------------------
(* C8 *)

\* C8, as claimed: starting from a .env whose KEY=VALUE lines have unique
\* keys, after any sequence of update_env_var calls every key is on at most
\* one line and every line that is not a KEY=VALUE line is still there,
\* verbatim and in its place among them.  (Fails by the defect of C7: a last
\* comment line with no terminator gets KEY=VALUE appended to it.)
C8_AsClaimed ==
    (envInit.exists /\ UniqueKeys(LinesOf(envInit.content))) =>
        /\ UniqueKeys(LinesOf(envFile.content))
        /\ OtherLines(LinesOf(envFile.content)) = OtherLines(LinesOf(envInit.content))

\* .env was "#" with no line terminator and now starts with the line "#B=1"
C8_Witness ==
    /\ envInit = File(<<"#">>)
    /\ last.op = "update_env_var"
    /\ LinesOf(envFile.content)[1] = <<"#", "B", "=", "1">>

\* C8 where the code keeps it: from a .env whose last line is terminated.
C8_OnTerminated == Terminated(envInit.content) => C8_AsClaimed

----------------------------------------------------------------------------
(* C9 *)

\* C9, as claimed: update_env_var is idempotent: applying update_env_var(key,
\* value) a second time leaves .env as the first application left it.
\* (Fails by the defect of C7: the first application merges KEY=VALUE into an
\* unterminated last line, where the second does not find it.)
C9_AsClaimed ==
    last.op = "update_env_var" =>
        update_env_var(envFile, last.key, last.value) = envFile

\* .env is "A=1B=2" after B was set in "A=1": setting B again adds a line
C9_Witness ==
    /\ last.op = "update_env_var"
    /\ last.key = <<"B">> /\ last.value = <<"2">>
    /\ envFile = File(<<"A", "=", "1", "B", "=", "2", NL>>)
    /\ update_env_var(envFile, last.key, last.value)
           = File(<<"A", "=", "1", "B", "=", "2", NL, "B", "=", "2", NL>>)

\* C9 where the code keeps it: on a .env whose last line is terminated.
C9_OnTerminated == Terminated(last.envBefore.content) => C9_AsClaimed

----------------------------------------------------------------------------
(* C10 *)

\* setup_environment(force=True) ran on a template that holds the
\* placeholder, and the operator declined both sub-flows
C10_Case ==
    /\ last.op = "env"
    /\ "force" \in args
    /\ envExample.exists
    /\ contains(envExample.content, Placeholder)
    /\ ~last.db /\ ~last.gpu

----------------------------------------------------------------------------
(* C11 *)

\* a tool is unavailable when its probe exits non-zero or cannot be launched
Unavailable(probe) == OutcomeOf({probe}) \in {"1", "OSError"}
C11_Interrupted ==
    \E i \in 1..Len(last.cmds) : last.cmds[i].out = "KeyboardInterrupt"

\* C11, as claimed: the dependency check succeeds exactly when go and git are
\* both available; an unavailable docker or docker-compose only produces a
\* warning and fails neither the check nor the run; and each of the four
\* tools is probed exactly once whatever the earlier probes gave.  A tool is
\* unavailable when its probe exits non-zero and also when the probe cannot
\* be launched.  (The code lets the launch failure escape: the run ends with
\* exit code 1 at the first tool that is not installed.)
C11_AsClaimed ==
    (last.op = "check" /\ ~C11_Interrupted) =>
        /\ \A probe \in ProbeCmds : Count({probe}) = 1
        /\ last.ret = IF Unavailable("go version") \/ Unavailable("git --version")
                      THEN "False" ELSE "True"
        /\ \A tool \in {"docker", "docker-compose"} :
              Unavailable(tool \o " --version") =>
                  Printed(print_warning(tool \o " not found (optional)"))
        /\ last.ret = "True" => exitCode # 1

\* go is there and docker cannot be launched: the run has ended with exit
\* code 1, docker-compose and git not probed
C11_Witness ==
    /\ last.op = "check"
    /\ OutcomeOf({"go version"}) = "0"
    /\ OutcomeOf({"docker --version"}) = "OSError"
    /\ Count({"docker-compose --version"}) = 0
    /\ Count({"git --version"}) = 0
    /\ pc = "exit" /\ exitCode = 1

\* C11 where the code keeps it: when every probe can be launched, whatever
\* exit codes they return, the claim holds as it stands.
C11_OnExitCodes ==
    (\A i \in 1..Len(last.cmds) : last.cmds[i].out \in ReturnCodes) => C11_AsClaimed

----------------------------------------------------------------------------
(* C12 *)

\* an error message printed by main() itself, or by the handler that ended
\* the run
MainPrinted(m) == \E i \in 1..Len(printed) : printed[i] = m
HandlerPrintedError == \E i \in 1..Len(last.msgs) : last.msgs[i].lvl = "error"

\* C12: a run that has ended with a non-zero exit code has printed the cause
\* before the exit: with exit code 130 the cancellation notice; with exit
\* code 1 either the "Unexpected error" message of an exception, or an error
\* message of the handler whose failure ended the run.
C12_CausePrinted ==
    /\ exitCode \in {NoExit, 0, 1, 130}
    /\ exitCode = 130 =>
          /\ last.ret = "KeyboardInterrupt"
          /\ MainPrinted(print_info("Operation cancelled by user"))
    /\ exitCode = 1 =>
          IF last.ret \in Exceptions
          THEN MainPrinted(print_error("Unexpected error"))
          ELSE /\ last.ret = "False"
               /\ started[Len(started)] = last.op
               /\ HandlerPrintedError

\* the tests failed: main() exits with code 1 and prints nothing itself, the
\* handler has printed "Some tests failed"
C12_Witness ==
    /\ exitCode = 1
    /\ last.op = "test" /\ last.ret = "False"
    /\ ~\E i \in 1..Len(printed) : printed[i].lvl = "error"
    /\ Printed(print_error("Some tests failed"))

----------------------------------------------------------------------------
(* C13 *)

\* the place of a target's compile among the commands of the last call, 0
\* when it was not compiled
CompiledAt(target) ==
    IF Count(Compile(target)) = 0 THEN 0
    ELSE CHOOSE i \in 1..Len(last.cmds) : last.cmds[i].cmd \in Compile(target)

\* C13: build_project compiles server, client, admin in this order, each at
\* most once, and nothing else; a failed server compile ends the build at
\* once, neither client nor admin compiled, with the result failure; a failed
\* client compile is followed by the admin compile; and the result returned
\* is success exactly when the server compile succeeded, whatever became of
\* the client and the admin compiles.
C13_BuildOrder ==
    last.op = "build" =>
        /\ \A i \in 1..Len(last.cmds) : last.cmds[i].cmd \in CompileCmds
        /\ \A t \in Targets : Count(Compile(t)) <= 1
        /\ CompiledAt("server") = 1
        /\ CompiledAt("client") \in {0, 2}
        /\ CompiledAt("admin") \in {0, 3}
        /\ CompiledAt("admin") = 3 => CompiledAt("client") = 2
        /\ OutcomeOf(Compile("server")) = "1" =>
              /\ last.ret = "False"
              /\ Len(last.cmds) = 1
        /\ OutcomeOf(Compile("client")) = "1" => CompiledAt("admin") = 3
        /\ last.ret \in {"True", "False"} =>
              (last.ret = "True" <=> OutcomeOf(Compile("server")) = "0")
        /\ (OutcomeOf(Compile("server")) = "0"
               /\ OutcomeOf(Compile("client")) \in ReturnCodes
               /\ OutcomeOf(Compile("admin")) \in ReturnCodes) => last.ret = "True"

\* the server compiled, the client and the admin tool did not: the build
\* has succeeded all the same
C13_Witness ==
    /\ last.op = "build"
    /\ OutcomeOf(Compile("server")) = "0"
    /\ OutcomeOf(Compile("client")) = "1"
    /\ OutcomeOf(Compile("admin")) = "1"
    /\ last.ret = "True"

----------------------------------------------------------------------------
(* C14 *)

BuildFirst == print_error("Admin tool not found. Build the project first.")

\* C14, as claimed: in the db step, with or without --docker-db, if the admin
\* binary is absent the step fails with the "build the project first" error
\* and has invoked no external command at all.  (With --docker-db the code
\* starts the containers before it looks for the binary.)
C14_AsClaimed ==
    (last.op = "db" /\ "admin" \notin last.binsBefore) =>
        /\ last.ret = "False"
        /\ Printed(BuildFirst)
        /\ last.cmds = <<>>

\* C14, amended: in the db step, if the admin binary is absent migrate is
\* never invoked; without --docker-db the step fails with the "build the
\* project first" error and has invoked no external command at all; with
\* --docker-db the container start is invoked first, the only command, and
\* the step fails with the "build the project first" error when that start
\* returned 0 and the wait that follows it was not interrupted, and with the
\* container start's own error when it returned non-zero.
C14_AbsentAdmin ==
    (last.op = "db" /\ "admin" \notin last.binsBefore) =>
        /\ Count(Migrate) = 0
        /\ "docker_db" \notin args =>
              /\ last.cmds = <<>>
              /\ last.ret = "False"
              /\ Printed(BuildFirst)
        /\ "docker_db" \in args =>
              /\ Len(last.cmds) = 1
              /\ last.cmds[1].cmd \in ContainerStart
              /\ (OutcomeOf(ContainerStart) = "0" /\ last.at # "sleep") =>
                    last.ret = "False" /\ Printed(BuildFirst)
              /\ OutcomeOf(ContainerStart) = "1" =>
                    /\ last.ret = "False"
                    /\ Printed(print_error("Failed to start Docker services"))
                    /\ ~Printed(BuildFirst)

\* no admin binary, --docker-db: the containers were started, and then the
\* step failed with "build the project first"
C14_Witness ==
    /\ last.op = "db"
    /\ "admin" \notin last.binsBefore
    /\ "docker_db" \in args
    /\ OutcomeOf(ContainerStart) = "0"
    /\ Printed(BuildFirst)

----------------------------------------------------------------------------
(* C15 *)

Download == {"go mod download"}
Tidy == {"go mod tidy"}

\* C15: install_dependencies invokes go mod download once and first; go mod
\* tidy is invoked, once, only after download returned 0; the step reports
\* success exactly when both returned 0; and no command is invoked after the
\* first non-zero exit.
C15_DownloadThenTidy ==
    last.op = "deps" =>
        /\ Count(Download) = 1
        /\ last.cmds[1].cmd \in Download
        /\ Count(Tidy) <= 1
        /\ Len(last.cmds) = 1 + Count(Tidy)
        /\ Count(Tidy) = 1 => OutcomeOf(Download) = "0"
        /\ OutcomeOf(Download) = "0" => Count(Tidy) = 1
        /\ last.ret = "True" <=>
              (OutcomeOf(Download) = "0" /\ OutcomeOf(Tidy) = "0")
        /\ \A i \in 1..Len(last.cmds) :
              last.cmds[i].out = "1" => i = Len(last.cmds) /\ last.ret = "False"

\* download failed: tidy was not run and the step has failed
C15_Witness ==
    /\ last.op = "deps"
    /\ OutcomeOf(Download) = "1"
    /\ Count(Tidy) = 0
    /\ last.ret = "False"

----------------------------------------------------------------------------
(* C16 *)

CreateUser == {"bin/aiserve-gpuproxy-admin create-user"}
MakeAdmin == {"bin/aiserve-gpuproxy-admin make-admin"}

\* C16: in the admin-creation step create-user is invoked, once, only if the
\* admin binary exists and the email and the password entered are not
\* empty; make-admin is invoked, once, exactly when create-user was invoked
\* and returned 0, and for the same email; and when make-admin fails no
\* further command is invoked: the account stays created and not elevated.
C16_CreateThenElevate ==
    last.op = "create_admin" =>
        /\ \A i \in 1..Len(last.cmds) : last.cmds[i].cmd \in CreateUser \cup MakeAdmin
        /\ Count(CreateUser) <= 1
        /\ Count(CreateUser) = 1 =>
              /\ "admin" \in last.binsBefore
              /\ last.cmds[1].cmd \in CreateUser
              /\ last.cmds[1].argv[1] # <<>>
              /\ last.cmds[1].argv[2] # <<>>
        /\ Count(MakeAdmin) = IF OutcomeOf(CreateUser) = "0" THEN 1 ELSE 0
        /\ Count(MakeAdmin) = 1 =>
              /\ last.cmds[2].cmd \in MakeAdmin
              /\ last.cmds[2].argv = <<last.cmds[1].argv[1]>>
        /\ OutcomeOf(MakeAdmin) = "1" =>
              /\ Len(last.cmds) = 2
              /\ OutcomeOf(CreateUser) = "0"
              /\ cmds[Len(cmds)] \in MakeAdmin
              /\ Printed(print_error("Failed to grant admin privileges"))

\* the account was created and make-admin failed
C16_Witness ==
    /\ last.op = "create_admin"
    /\ OutcomeOf(CreateUser) = "0"
    /\ OutcomeOf(MakeAdmin) = "1"

----------------------------------------------------------------------------
(* C17 *)

C17_DbFailed ==
    /\ last.op = "db"
    /\ \/ OutcomeOf(ContainerStart) = "1"
       \/ Printed(BuildFirst)
       \/ OutcomeOf(Migrate) = "1"
C17_DockerFailed ==
    /\ last.op = "docker"
    /\ \/ OutcomeOf({"docker-compose build"}) = "1"
       \/ OutcomeOf({"docker-compose up -d"}) = "1"

\* C17: a failure of the database-setup step (container start non-zero,
\* admin binary absent, migrate non-zero) or of the docker step
\* (docker-compose build or up non-zero) ends the run: exit code 1, and none
\* of the steps that follow is started.
C17_DbAndDockerFatal ==
    (C17_DbFailed \/ C17_DockerFailed) =>
        /\ last.ret = "False"
        /\ pc = "exit" /\ exitCode = 1
        /\ started[Len(started)] = last.op
        /\ ~ENABLED Next

\* --docker --status with docker-compose up failing: the run has ended
\* before the status step
C17_Witness ==
    /\ C17_DockerFailed
    /\ OutcomeOf({"docker-compose up -d"}) = "1"
    /\ "status" \in args
    /\ pc = "exit"

----------------------------------------------------------------------------
(* C18 *)

\* both invocations have left update_env_var and at least one has written
RaceOver ==
    /\ \A p \in RaceProcs : writers[p].pc = "done"
    /\ \E p \in RaceProcs : writers[p].wroteAt > 0
LastWriter ==
    CHOOSE p \in RaceProcs : \A q \in RaceProcs : writers[q].wroteAt <= writers[p].wroteAt
EarlierWriter == CHOOSE p \in RaceProcs : p # LastWriter

\* the complete line sequence an invocation writes, from what it read
Rewritten(p) ==
    writelines(UpsertLines(readlines(writers[p].read), writers[p].key, writers[p].value))

\* the last writer emptied .env before the other one wrote into it
Overlapped ==
    /\ writers[EarlierWriter].wroteAt > 0
    /\ writers[LastWriter].openedAt < writers[EarlierWriter].wroteAt

\* C18, as claimed: when two invocations run update_env_var at once on the
\* same .env, the file at the end is the complete line sequence written by
\* the one that writes last, computed from what that one read.  (When both
\* have opened .env for writing before either writes, what the earlier
\* writer wrote beyond the length of the last writer's lines stays.)
C18_AsClaimed ==
    RaceOver => envFile.content = Rewritten(LastWriter)

\* C18, amended: the file at the end is the complete line sequence written by
\* the invocation that writes last, computed from what that one read, when
\* that invocation opened .env for writing after the other's write; when it
\* opened .env before the other's write, the file at the end is these lines
\* followed by what the other's lines hold beyond their length.  Either way
\* the file begins with the last writer's lines.
C18_LastWriterWins ==
    RaceOver =>
        /\ startswith(envFile.content, Rewritten(LastWriter))
        /\ ~Overlapped => envFile.content = Rewritten(LastWriter)
        /\ Overlapped =>
              envFile.content = Overwrite(Rewritten(EarlierWriter), Rewritten(LastWriter))

\* read, read, write, write on two different keys: both have read
\* "A=1", the earlier writer set B and the last writer set A, and the file
\* at the end has no line for B
C18_Witness ==
    /\ RaceOver
    /\ envInit = File(<<"A", "=", "1", NL>>)
    /\ \A p \in RaceProcs : writers[p].read = envInit.content
    /\ writers[EarlierWriter].wroteAt > 0
    /\ writers[EarlierWriter].key = <<"B">>
    /\ writers[LastWriter].key = <<"A">>
    /\ FindKey(readlines(envFile.content), <<"B">>, 1) = 0

----------------------------------------------------------------------------
(* C19 *)

C19_Declined ==
    /\ last.op = "env"
    /\ last.envBefore.exists /\ "force" \notin args
    /\ Printed(print_info("Skipping environment setup"))
C19_NoTemplate ==
    /\ last.op = "env"
    /\ ~envExample.exists
    /\ Printed(print_error(".env.example not found"))
C19_SubFlowShown ==
    \/ last.db \/ last.gpu
    \/ Printed(print("Optional Configuration:"))
    \/ Printed(print("Database Configuration:"))
    \/ Printed(print("GPU Provider Configuration:"))

\* C19: when the environment-setup step ends early, the operator having
\* declined to overwrite an existing .env without --force, or .env.example
\* being absent, .env is exactly what it was before the step, neither created
\* nor changed, no sub-flow prompt was shown, and the run goes on with the
\* next step whose flag was given.  The step does end early whenever
\* .env.example is absent, unless the operator interrupts the overwrite
\* prompt.
C19_EarlyAbortFrame ==
    /\ (C19_Declined \/ C19_NoTemplate) =>
          /\ envFile = last.envBefore
          /\ last.jwt_secret = <<>>
          /\ ~C19_SubFlowShown
          /\ last.cmds = <<>>
          /\ IF pc = "exit" THEN exitCode = 0
             ELSE exitCode = NoExit /\ pc = LaterStep("env") /\ ENABLED Next
    /\ (last.op = "env" /\ ~envExample.exists /\ last.at # "overwrite") =>
          C19_NoTemplate \/ C19_Declined

\* the operator kept the old .env, and the build is about to run
C19_Witness ==
    /\ C19_Declined
    /\ envFile = File(OldEnv)
    /\ pc = "build"

----------------------------------------------------------------------------
(* C20 *)

DevServer == {"bin/aiserve-gpuproxyd -dv -dm"}
C20_DevInterrupted ==
    last.op = "dev" /\ OutcomeOf(DevServer) = "KeyboardInterrupt"

\* an interrupt met a step other than dev: during one of its external
\* commands, at one of its prompts, or in the sleep of the db step
C20_OtherInterrupted ==
    /\ last.op \in {"check", "deps", "env", "build", "db", "create_admin",
                    "test", "docker", "status"}
    /\ \/ \E i \in 1..Len(last.cmds) : last.cmds[i].out = "KeyboardInterrupt"
       \/ last.at # "none"

\* the status step ran right after the dev step and returned
C20_StatusAfterDev ==
    /\ last.op = "status" /\ last.ret \notin Exceptions
    /\ Len(started) >= 2 /\ started[Len(started) - 1] = "dev"

\* C20: an interrupt while the dev server runs is a clean stop: the handler
\* returns, the run does not exit with code 130, a requested status step is
\* the next to run, and the run ends with exit code 0; an interrupt during
\* any other step ends the run with exit code 130, and no later step starts.
C20_InterruptHandling ==
    /\ C20_DevInterrupted =>
          /\ last.ret = "None"
          /\ Printed(print_info("Server stopped"))
          /\ IF pc = "exit" THEN exitCode = 0
             ELSE /\ exitCode = NoExit
                  /\ pc = IF "status" \in args THEN "status" ELSE "next_steps"
                  /\ ENABLED Next
    /\ C20_OtherInterrupted =>
          /\ last.ret = "KeyboardInterrupt"
          /\ pc = "exit" /\ exitCode = 130
          /\ started[Len(started)] = last.op
          /\ ~ENABLED Next
    /\ C20_StatusAfterDev =>
          IF pc = "exit" THEN exitCode = 0
          ELSE exitCode = NoExit /\ pc = "next_steps" /\ ENABLED Next
    /\ exitCode = 130 => C20_OtherInterrupted

\* the dev server was interrupted and the status step is about to run
C20_Witness ==
    /\ C20_DevInterrupted
    /\ pc = "status"

\* the operator interrupted the password prompt of the admin-creation step
C20_PromptInterrupted ==
    /\ last.op = "create_admin" /\ last.at = "password"
    /\ exitCode = 130

----------------------------------------------------------------------------
(* C21 *)

\* the kind the operator chose, and the settings the sub-flow is to upsert
\* for it: each answer stripped, its default when that is empty
Answer(typed, default) == IF strip(typed) = <<>> THEN default ELSE strip(typed)
Relational(a) == Answer(a.db_type, Postgres) = Postgres
DbSettings(a) ==
    IF Relational(a)
    THEN << <<DB_TYPE, Postgres>>,
            <<DB_HOST, Answer(a.db_host, DefaultHost)>>,
            <<DB_PORT, Answer(a.db_port, DefaultPort)>>,
            <<DB_USER, Answer(a.db_user, DefaultUser)>>,
            <<DB_PASSWORD, Answer(a.db_password, DefaultPassword)>>,
            <<DB_NAME, Answer(a.db_name, DefaultName)>> >>
    ELSE << <<DB_TYPE, Sqlite>>,
            <<DB_NAME, Answer(a.db_file, DefaultDbFile)>> >>

\* the index of the first line of ls that sets key, 0 when there is none
FirstSetting(ls, key) ==
    LET at == {i \in 1..Len(ls) : IsSetting(ls[i], key)}
    IN  IF at = {} THEN 0 ELSE CHOOSE i \in at : \A j \in at : i <= j

\* C21, as claimed: the database sub-flow upserts exactly the six keys
\* DB_TYPE, DB_HOST, DB_PORT, DB_USER, DB_PASSWORD, DB_NAME for the
\* relational kind, an empty answer replaced by its default, and exactly
\* DB_TYPE and DB_NAME for the embedded kind: each of these keys is set to
\* its value on the first line that set it before, or on a new line after
\* the old ones; every other line of .env is unchanged and in place; and
\* DB_TYPE names the kind configured.  (Fails by the defect of C7: the first
\* key that has no line yet is appended to an unterminated last line.)
C21_AsClaimed ==
    last.op = "configure_database" =>
        LET before == LinesOf(last.envBefore.content)
            after == LinesOf(envFile.content)
            kvs == DbSettings(last.answers)
            old == {k \in 1..Len(kvs) : FirstSetting(before, kvs[k][1]) # 0}
            new == (1..Len(kvs)) \ old
        IN  /\ Len(kvs) = IF Relational(last.answers) THEN 6 ELSE 2
            /\ Len(after) = Len(before) + Cardinality(new)
            /\ \A k \in 1..Len(kvs) :
                  LET i == FirstSetting(after, kvs[k][1])
                  IN  /\ i # 0
                      /\ after[i] = kvs[k][1] \o <<"=">> \o kvs[k][2]
                      /\ IF k \in old THEN i = FirstSetting(before, kvs[k][1])
                         ELSE i > Len(before)
            /\ \A j \in 1..Len(before) :
                  (\A k \in old : j # FirstSetting(before, kvs[k][1]))
                      => after[j] = before[j]
            /\ after[FirstSetting(after, DB_TYPE)]
                   = DB_TYPE \o <<"=">>
                         \o (IF Relational(last.answers) THEN Postgres ELSE Sqlite)

\* .env was "A=1" with no line terminator, the operator took every default:
\* the first line is now "A=1DB_TYPE=postgres"
C21_Witness ==
    /\ last.op = "configure_database"
    /\ last.envBefore = File(<<"A", "=", "1">>)
    /\ last.answers = NoDatabaseAnswers
    /\ LinesOf(envFile.content)[1] = <<"A", "=", "1">> \o DB_TYPE \o <<"=">> \o Postgres

\* C21 where the code keeps it: on a .env whose last line is terminated the
\* claim holds as it stands.
C21_OnTerminated == Terminated(last.envBefore.content) => C21_AsClaimed

\* the embedded kind on a .env that holds DB_TYPE and DB_NAME already: the
\* two lines are rewritten, no line is added
C21_Embedded ==
    /\ last.op = "configure_database"
    /\ ~Relational(last.answers)
    /\ Len(LinesOf(envFile.content)) = Len(LinesOf(last.envBefore.content))
    /\ envFile # last.envBefore

----------------------------------------------------------------------------
(* C22 *)

\* where old occurs in s
Occurrences(s, old) ==
    {i \in 1..(Len(s) - Len(old) + 1) : SubSeq(s, i, i + Len(old) - 1) = old}

\* setup_environment wrote .env from a template that holds the placeholder
\* more than once, and no sub-flow touched .env afterwards
C22_Case ==
    /\ last.op = "env"
    /\ last.jwt_secret # <<>>
    /\ ~last.db /\ ~last.gpu
    /\ Cardinality(Occurrences(envExample.content, Placeholder)) > 1

\* C22, as claimed: when the template holds the placeholder more than once,
\* setup_environment puts the secret in place of the first occurrence and
\* leaves every later occurrence as it was.  (str.replace without a count
\* replaces them all.)
C22_AsClaimed ==
    C22_Case =>
        LET t == envExample.content
            e == envFile.content
            was == Occurrences(t, Placeholder)
            first == CHOOSE i \in was : \A j \in was : i <= j
            secret == JwtPrefix \o last.jwt_secret
            grown == Len(secret) - Len(Placeholder)
        IN  /\ SubSeq(e, first, first + Len(secret) - 1) = secret
            /\ \A i \in was \ {first} :
                  SubSeq(e, i + grown, i + grown + Len(Placeholder) - 1) = Placeholder

\* C22, amended: the secret is inserted by literal replacement of the
\* placeholder in which every occurrence is affected: when the template
\* holds the placeholder more than once, setup_environment replaces the
\* first occurrence and every later one by JWT_SECRET= and the same secret,
\* and the placeholder occurs nowhere in .env.
C22_EveryOccurrence ==
    C22_Case =>
        LET t == envExample.content
            e == envFile.content
            was == Occurrences(t, Placeholder)
            secret == JwtPrefix \o last.jwt_secret
            grown == Len(secret) - Len(Placeholder)
            earlier(i) == Cardinality({j \in was : j < i})
        IN  /\ Occurrences(e, Placeholder) = {}
            /\ Occurrences(e, secret) = {i + grown * earlier(i) : i \in was}
            /\ Cardinality(Occurrences(e, secret)) = Cardinality(was)

\* the template holds the placeholder on its first line and again in a
\* comment; .env holds the secret twice
C22_Witness ==
    /\ C22_Case
    /\ envExample.content = Placeholder \o <<"\n", "#", " ">> \o Placeholder \o <<NL>>
    /\ Cardinality(Occurrences(envFile.content, JwtPrefix \o last.jwt_secret)) = 2

----------------------------------------------------------------------------
(* C23 *)

AllBuilt == print_success("All binaries built successfully!")
ClientFailed == print_error("Client build failed")
AdminFailed == print_error("Admin build failed")

\* C23, as claimed: build_project prints "All binaries built successfully!"
\* only when the three compiles, of the server, the client and the admin
\* tool, all returned exit code 0, and never after it reported a client or
\* admin build failure.  (The code prints it whenever the server compile
\* returned 0 and the two others returned at all.)
C23_AsClaimed ==
    (last.op = "build" /\ Printed(AllBuilt)) =>
        /\ \A t \in Targets : OutcomeOf(Compile(t)) = "0"
        /\ ~Printed(ClientFailed)
        /\ ~Printed(AdminFailed)

\* the client's compile returned 1, which was reported, and the confirmation
\* was printed all the same, after it
C23_Witness ==
    /\ last.op = "build"
    /\ OutcomeOf(Compile("client")) = "1"
    /\ \E i, j \in 1..Len(last.msgs) :
          i < j /\ last.msgs[i] = ClientFailed /\ last.msgs[j] = AllBuilt

\* C23 where the code keeps it: the confirmation is printed only when the
\* server compile returned 0 and the two other compiles returned an exit
\* code, and the claim holds as it stands in runs where no client or admin
\* compile returned non-zero.
C23_OnServerOnly ==
    last.op = "build" =>
        /\ Printed(AllBuilt) <=>
              /\ OutcomeOf(Compile("server")) = "0"
              /\ \A t \in {"client", "admin"} : OutcomeOf(Compile(t)) \in ReturnCodes
        /\ (\A t \in {"client", "admin"} : OutcomeOf(Compile(t)) # "1") => C23_AsClaimed

============================================================================
